---------------------------- MODULE Spec2Model ----------------------------
(***************************************************************************)
(* Water-quality decision-and-alerting pipeline.                           *)
(*                                                                         *)
(*   - dashboard ingestion (predict_api.py): feature vector, three model   *)
(*     families, KNN fallback for DO, SQLite history, websocket fan-out;   *)
(*   - multi-pond prioritisation (the decision agents).                    *)
(*                                                                         *)
(* Numbers of the decision agents are exact rationals scaled by Scale      *)
(* (urgency 1.0 = Scale); IEEE rounding is not modelled.                   *)
(***************************************************************************)
EXTENDS Integers, Sequences, FiniteSets, TLC

(***************************************************************************)
(* Bounds of the model.                                                    *)
(***************************************************************************)
MaxRows == 2          \* rows the history table may hold in the history runs
MaxIngestRows == 2    \* rows it may hold in the hub runs
MaxSubs == 2          \* websocket connections ever opened
MaxTasks == 2         \* broadcast tasks alive at once
MaxLimit == 3         \* largest ?limit= of a history query
MaxPonds == 3         \* length of the pond list given to a decision agent
MaxIterations == 2    \* samples the simulator generates and posts
MaxSleepSteps == 3    \* longest sleep between samples, in polling steps
MaxLiveSamples == 1   \* samples ingested in the keep-alive runs
MaxLoaders == 2       \* request threads inside _load_dashboard_model at once
MaxGetters == 2       \* request threads inside get_dashboard at once
MaxClock == 2         \* seconds that pass in the dashboard runs
MaxSnapshots == 2     \* dashboard snapshots generated in the dashboard runs
MaxSimThreads == 2    \* simulator threads the service ever starts
MaxControllers == 2   \* request threads inside simulator start/stop at once
MaxArrivals == 102    \* readings that arrive for one pond of the v2 API
MaxBatch == 2         \* entries of one /api/predict/batch request

(***************************************************************************)
(* Python values as they arrive in a request body or a CSV cell.           *)
(***************************************************************************)
Num(n) == [k |-> "num", v |-> n, s |-> <<>>]
Str(cs) == [k |-> "str", v |-> 0, s |-> cs]
Null == [k |-> "null", v |-> 0, s |-> <<>>]
NaN == [k |-> "nan", v |-> 0, s |-> <<>>]

Digits == <<"0", "1", "2", "3", "4", "5", "6", "7", "8", "9">>

DigitChar(d) == Digits[d + 1]

IsDigit(c) == \E i \in 1..Len(Digits) : Digits[i] = c

DigitVal(c) == (CHOOSE i \in 1..Len(Digits) : Digits[i] = c) - 1

RECURSIVE NatToChars(_)
NatToChars(n) ==
    IF n < 10 THEN <<DigitChar(n)>>
    ELSE NatToChars(n \div 10) \o <<DigitChar(n % 10)>>

IntToChars(n) == IF n < 0 THEN <<"-">> \o NatToChars(0 - n) ELSE NatToChars(n)

RECURSIVE CharsToNat(_)
CharsToNat(cs) ==
    IF Len(cs) = 0 THEN 0
    ELSE 10 * CharsToNat(SubSeq(cs, 1, Len(cs) - 1)) + DigitVal(cs[Len(cs)])

AllDigits(cs) == Len(cs) > 0 /\ \A i \in 1..Len(cs) : IsDigit(cs[i])

IsNumberText(cs) ==
    \/ AllDigits(cs)
    \/ Len(cs) > 1 /\ cs[1] = "-" /\ AllDigits(Tail(cs))

NumberOfText(cs) ==
    IF cs[1] = "-" THEN 0 - CharsToNat(Tail(cs)) ELSE CharsToNat(cs)

NaNText == <<"N", "a", "N">>
NullText == <<"n", "u", "l", "l">>
Quote == "\""

(* float(x): [ok, nan, v]; ok = FALSE when float() raises. *)
PyFloat(x) ==
    CASE x.k = "num" -> [ok |-> TRUE, nan |-> FALSE, v |-> x.v]
      [] x.k = "nan" -> [ok |-> TRUE, nan |-> TRUE, v |-> 0]
      [] x.k = "str" ->
            IF IsNumberText(x.s)
            THEN [ok |-> TRUE, nan |-> FALSE, v |-> NumberOfText(x.s)]
            ELSE [ok |-> FALSE, nan |-> FALSE, v |-> 0]
      [] OTHER -> [ok |-> FALSE, nan |-> FALSE, v |-> 0]

(***************************************************************************)
(* json.dumps / json.loads.  A dict is a function from its keys to values; *)
(* its JSON text is the sequence of its members, key and value text, in    *)
(* the order of KeyOrder.                                                  *)
(***************************************************************************)
DOKey == "DO(mg/L)"
KeyOrder == <<"DO(mg/L)", "Temp", "pH", "Ammonia (mg L-1 )", "note", "class",
              "probabilities", "label">>

List(xs) == [k |-> "list", v |-> 0, s |-> xs]

RECURSIVE JoinComma(_)
JoinComma(xs) ==
    IF Len(xs) = 0 THEN <<>>
    ELSE IF Len(xs) = 1 THEN IntToChars(xs[1])
    ELSE IntToChars(xs[1]) \o <<",">> \o JoinComma(Tail(xs))

RECURSIVE SplitComma(_)
SplitComma(cs) ==
    LET idx == {i \in 1..Len(cs) : cs[i] = ","}
    IN  IF idx = {} THEN <<cs>>
        ELSE LET i == CHOOSE i \in idx : \A j \in idx : i <= j
             IN  <<SubSeq(cs, 1, i - 1)>> \o SplitComma(SubSeq(cs, i + 1, Len(cs)))

ParseList(t) ==
    LET inner == SubSeq(t, 2, Len(t) - 1)
        parts == SplitComma(inner)
    IN  IF Len(inner) = 0 THEN <<>>
        ELSE [i \in 1..Len(parts) |-> NumberOfText(parts[i])]

JsonDumpsValue(x) ==
    CASE x.k = "num" -> IntToChars(x.v)
      [] x.k = "nan" -> NaNText
      [] x.k = "null" -> NullText
      [] x.k = "list" -> <<"[">> \o JoinComma(x.s) \o <<"]">>
      [] OTHER -> <<Quote>> \o x.s \o <<Quote>>

JsonLoadsValue(t) ==
    CASE t = NullText -> Null
      [] t = NaNText -> NaN
      [] t[1] = Quote -> Str(SubSeq(t, 2, Len(t) - 1))
      [] t[1] = "[" -> List(ParseList(t))
      [] OTHER -> Num(NumberOfText(t))

RECURSIVE DumpsFrom(_, _)
DumpsFrom(d, i) ==
    IF i > Len(KeyOrder) THEN <<>>
    ELSE (IF KeyOrder[i] \in DOMAIN d
          THEN <<[key |-> KeyOrder[i], text |-> JsonDumpsValue(d[KeyOrder[i]])]>>
          ELSE <<>>) \o DumpsFrom(d, i + 1)

JsonDumps(d) == DumpsFrom(d, 1)

JsonLoads(t) ==
    [key \in {t[i].key : i \in 1..Len(t)} |->
        JsonLoadsValue(t[CHOOSE i \in 1..Len(t) : t[i].key = key].text)]

(* dict.get(key, default) *)
DictGet(d, key, default) == IF key \in DOMAIN d THEN d[key] ELSE default

(* A dict from a record of optional members: members whose value is the
   marker Absent are left out. *)
Absent == [k |-> "absent", v |-> 0, s |-> <<>>]

MkSensors(do, temp) ==
    [key \in {f \in {DOKey, "Temp"} :
                  (IF f = DOKey THEN do ELSE temp) # Absent} |->
        IF key = DOKey THEN do ELSE temp]

VARIABLES
    samples,            \* rows of the SQLite table samples
    sqlite_sequence,    \* AUTOINCREMENT's largest id ever used
    commits,            \* ids in the order their INSERTs were committed
    last,               \* the last request answered and its response
    active_connections, \* ConnectionManager.active_connections
    wsPhase,            \* per websocket: "new", "open" or "closed"
    tasks,              \* broadcast tasks created on the event loop
    inbox,              \* inference run: the request about to be served
    prioIn,             \* prioritiser run: the agent and the data it is given
    mpd,                \* prioritiser run: the MultiPondDecision returned
    returned,           \* what the last finished broadcast call returned
    decIn,              \* decision run: the agent and the pond it is given
    decision,           \* decision run: the DecisionOutput returned
    manager,            \* ManagerAgent under construction, or constructed
    sim,                \* telemetry simulator: its thread and its stop signal
    DASH_MODELS,        \* _DASH_MODELS: per model name the cached object
    loadCalls,          \* per model name, the joblib.load calls made so far
    loaders,            \* per request thread, its place in _load_dashboard_model
    DASHBOARD_CACHE,    \* _DASHBOARD_CACHE: per (ponds, seed) the snapshot stored
    DASHBOARD_CACHE_TS, \* _DASHBOARD_CACHE_TS: per (ponds, seed) its time stamp
    clock,              \* time.time(), in seconds
    snapshots,          \* dashboard snapshots generated so far
    getters,            \* per request thread, its place in get_dashboard
    SIMULATORS,         \* _SIMULATORS: per pond the simulator thread registered
    simThreads,         \* the simulator threads started by the service
    controllers,        \* per request thread, its place in simulator start/stop
    sensor_history,     \* v2 API: per pond the readings kept
    arrivals            \* v2 API: per pond the readings that have arrived

histVars == <<samples, sqlite_sequence, commits>>
hubVars == <<active_connections, wsPhase, tasks, returned>>
prioVars == <<prioIn, mpd>>
decVars == <<decIn, decision>>
assistantVars == <<prioVars, decVars, manager>>
cacheVars == <<DASH_MODELS, loadCalls, loaders>>
dashVars == <<DASHBOARD_CACHE, DASHBOARD_CACHE_TS, clock, snapshots, getters>>
simsVars == <<SIMULATORS, simThreads, controllers>>
v2Vars == <<sensor_history, arrivals>>
serviceVars == <<cacheVars, dashVars, simsVars, v2Vars>>
vars == <<samples, sqlite_sequence, commits, last, active_connections, wsPhase,
          tasks, inbox, prioIn, mpd, returned, decIn, decision, manager, sim,
          DASH_MODELS, loadCalls, loaders, DASHBOARD_CACHE, DASHBOARD_CACHE_TS,
          clock, snapshots, getters, SIMULATORS, simThreads, controllers,
          sensor_history, arrivals>>


(***************************************************************************)
(* Inference ensemble of the dashboard ingestion path.                     *)
(***************************************************************************)
(* Feature names shipped with the artifacts: the CSV's columns without the
   three regression targets and the class, so DO is not a feature. *)
FeatureNames == <<"Temp">>

(* Outputs of the opaque predictors, chosen by the environment per call. *)
RfOutputs == {<<4, 7, 0>>, <<5, 7, 0>>}     \* [DO, pH, Ammonia]
KnnOutputs == {5}
SvmOutputs == {1, 3}
SvmProbabilities == <<1, 8, 1>>

(* Fixed texts are one chunk; texts of a request are character by character. *)
NoteText == <<"DO estimated via KNN fallback (sensor missing or invalid)">>

BuildXLenient(sensors) ==
    LET f == [i \in 1..Len(FeatureNames) |->
                 PyFloat(DictGet(sensors, FeatureNames[i], Num(0)))]
    IN  [ok |-> TRUE,
         x |-> [i \in 1..Len(FeatureNames) |-> f[i].v]]

(* X = [[float(sensors.get(k, 0)) for k in features]] *)
BuildX(sensors) ==
    LET f == [i \in 1..Len(FeatureNames) |->
                 PyFloat(DictGet(sensors, FeatureNames[i], Num(0)))]
    IN  [ok |-> \A i \in 1..Len(FeatureNames) : f[i].ok,
         x |-> [i \in 1..Len(FeatureNames) |-> f[i].v]]

(* do_val = float(do_input) if do_input is not None else None, None when
   float() raises; the fallback applies when do_val is None or <= 0. *)
DoVal(sensors) ==
    LET do_input == DictGet(sensors, DOKey, Null)
    IN  IF do_input = Null THEN [ok |-> FALSE, nan |-> FALSE, v |-> 0]
        ELSE PyFloat(do_input)

(* Faulty variant: zero is taken for a usable reading. *)
NeedsFallbackLt(do_val) == ~do_val.ok \/ (~do_val.nan /\ do_val.v < 0)

NeedsFallback(do_val) == ~do_val.ok \/ (~do_val.nan /\ do_val.v <= 0)

RfOut(sensors, rfp, knnp) ==
    LET base == ("DO(mg/L)" :> Num(rfp[1])) @@ ("pH" :> Num(rfp[2]))
                    @@ ("Ammonia (mg L-1 )" :> Num(rfp[3]))
    IN  IF NeedsFallback(DoVal(sensors))
        THEN ("DO(mg/L)" :> Num(knnp)) @@ ("note" :> Str(NoteText)) @@ base
        ELSE base

KnnOut(knnp) == ("DO(mg/L)" :> Num(knnp))

LabelMap(c) ==
    CASE c = 0 -> Str(<<"Good">>)
      [] c = 1 -> Str(<<"Warning">>)
      [] c = 2 -> Str(<<"Dangerous">>)
      [] OTHER -> Null

(* svm_out of predict_all: class and probabilities (the classifier is one
   that provides predict_proba). *)
SvmOutAll(c) == ("class" :> Num(c)) @@ ("probabilities" :> List(SvmProbabilities))

(* svm_out of _process_sample_and_persist: it adds the label. *)
SvmOutBatch(c) == SvmOutAll(c) @@ ("label" :> LabelMap(c))


(***************************************************************************)
(* History store: the SQLite table samples.                                *)
(***************************************************************************)
RowCount == Cardinality(samples)

(* Faulty variant: the last id is handed out again. *)
NextRowIdReuse == IF sqlite_sequence = 0 THEN 1 ELSE sqlite_sequence

(* id INTEGER PRIMARY KEY AUTOINCREMENT: one more than the largest id the
   table has ever used. *)
NextRowId == sqlite_sequence + 1

(* Faulty variant: the sensors and rf columns are swapped. *)
NewRowSwapped(ts, sensors, rf, svm, knn) ==
    [id |-> NextRowId, ts |-> ts, sensors |-> JsonDumps(rf),
     rf |-> JsonDumps(sensors), svm |-> JsonDumps(svm), knn |-> JsonDumps(knn)]

(* INSERT INTO samples (ts,sensors,rf,svm,knn) VALUES (?,?,?,?,?) *)
NewRow(ts, sensors, rf, svm, knn) ==
    [id |-> NextRowId, ts |-> ts, sensors |-> JsonDumps(sensors),
     rf |-> JsonDumps(rf), svm |-> JsonDumps(svm), knn |-> JsonDumps(knn)]

(* ORDER BY id DESC *)
RECURSIVE OrderByIdDesc(_)
OrderByIdDesc(rows) ==
    IF rows = {} THEN <<>>
    ELSE LET m == CHOOSE r \in rows : \A q \in rows : q.id <= r.id
         IN  <<m>> \o OrderByIdDesc(rows \ {m})

(* Faulty variant: one row too many. *)
LimitRowsOffByOne(seq, limit) ==
    IF limit < 0 THEN seq ELSE SubSeq(seq, 1, IF limit + 1 < Len(seq) THEN limit + 1 ELSE Len(seq))

(* LIMIT ?: a negative limit is no limit. *)
LimitRows(seq, limit) ==
    IF limit < 0 \/ limit >= Len(seq) THEN seq ELSE SubSeq(seq, 1, limit)

(* One entry of the /dashboard/history response. *)
HistoryEntry(row) ==
    [ts |-> row.ts, sensors |-> JsonLoads(row.sensors), rf |-> JsonLoads(row.rf),
     svm |-> JsonLoads(row.svm), knn |-> JsonLoads(row.knn)]

DashboardHistory(limit) ==
    LET rows == LimitRows(OrderByIdDesc(samples), limit)
    IN  [i \in 1..Len(rows) |-> HistoryEntry(rows[i])]

(***************************************************************************)
(* Broadcast tasks and the last answered request.                          *)
(***************************************************************************)
EmptyDict == <<>>
NoMsg == [ts |-> 0, sensors |-> EmptyDict, rf |-> EmptyDict, svm |-> EmptyDict,
          knn |-> EmptyDict]

FreeTask ==
    [st |-> "free", msg |-> NoMsg, snap |-> <<>>, pos |-> 0, living |-> <<>>,
     failedSubs |-> <<>>, failed |-> 0, sends |-> <<>>]

TaskIds == 1..MaxTasks

HasFreeTask == \E i \in TaskIds : tasks[i].st = "free"

(* loop.create_task(manager.broadcast(payload)) *)
CreateTask(payload) ==
    LET i == CHOOSE j \in TaskIds : tasks[j].st = "free"
    IN  [tasks EXCEPT ![i] = [FreeTask EXCEPT !.st = "scheduled", !.msg = payload]]

NoLast ==
    [op |-> "none", req |-> EmptyDict, limit |-> 0, code |-> 0, rf |-> EmptyDict,
     svm |-> EmptyDict, knn |-> EmptyDict, fallback |-> FALSE, dbRaised |-> FALSE,
     scheduled |-> FALSE, ts |-> 0, rows |-> <<>>, rfp |-> <<>>, knnp |-> 0]


(***************************************************************************)
(* Ingestion: POST /dashboard/predict_all and _process_sample_and_persist. *)
(***************************************************************************)
Payload(ts, sensors, rf, svm, knn) ==
    [ts |-> ts, sensors |-> sensors, rf |-> rf, svm |-> svm, knn |-> knn]

(* save_sample_to_db raising inside dashboard_predict_all: nothing catches
   it, the request ends with an error and nothing after line 623 runs. *)
PredictAllSaveRaised(sensors, rfp, c, knnp, ts) ==
    /\ tasks' = tasks
    /\ last' = [NoLast EXCEPT !.op = "predict_all", !.req = sensors, !.code = 500,
                  !.dbRaised = TRUE, !.rfp = rfp, !.knnp = knnp]

dashboard_predict_all(sensors, rfp, c, knnp, ts, dbFails) ==
    LET X == BuildX(sensors)
        rf_out == RfOut(sensors, rfp, knnp)
        svm_out == SvmOutAll(c)
        knn_out == KnnOut(knnp)
    IN  IF ~X.ok
        THEN /\ last' = [NoLast EXCEPT !.op = "predict_all", !.req = sensors,
                           !.code = 400]
             /\ UNCHANGED <<histVars, hubVars>>
        ELSE IF dbFails
        THEN /\ PredictAllSaveRaised(sensors, rfp, c, knnp, ts)
             /\ UNCHANGED <<histVars, active_connections, wsPhase, returned>>
        ELSE /\ HasFreeTask
             /\ samples' = samples \cup {NewRow(ts, sensors, rf_out, svm_out, knn_out)}
             /\ sqlite_sequence' = NextRowId
             /\ commits' = Append(commits, NextRowId)
             /\ tasks' = CreateTask(Payload(ts, sensors, rf_out, svm_out, knn_out))
             /\ last' = [NoLast EXCEPT !.op = "predict_all", !.req = sensors,
                           !.code = 200, !.rf = rf_out, !.svm = svm_out,
                           !.knn = knn_out,
                           !.fallback = NeedsFallback(DoVal(sensors)),
                           !.scheduled = TRUE, !.ts = ts, !.rfp = rfp, !.knnp = knnp]
             /\ UNCHANGED <<active_connections, wsPhase, returned>>

(* One row of /dashboard/predict_batch.  loopOk: whether
   asyncio.get_event_loop().create_task(...) succeeds in the calling thread. *)
process_sample_and_persist(sensors, rfp, c, knnp, ts, dbFails, loopOk) ==
    LET X == BuildX(sensors)
        rf_out == RfOut(sensors, rfp, knnp)
        svm_out == SvmOutBatch(c)
        knn_out == KnnOut(knnp)
    IN  IF ~X.ok
        THEN /\ last' = [NoLast EXCEPT !.op = "batch", !.req = sensors, !.code = 400]
             /\ UNCHANGED <<histVars, hubVars>>
        ELSE /\ loopOk => HasFreeTask
             /\ IF dbFails
                THEN UNCHANGED histVars
                ELSE /\ samples' = samples \cup
                                     {NewRow(ts, sensors, rf_out, svm_out, knn_out)}
                     /\ sqlite_sequence' = NextRowId
                     /\ commits' = Append(commits, NextRowId)
             /\ tasks' = IF loopOk
                         THEN CreateTask(Payload(ts, sensors, rf_out, svm_out, knn_out))
                         ELSE tasks
             /\ last' = [NoLast EXCEPT !.op = "batch", !.req = sensors,
                           !.code = 200, !.rf = rf_out, !.svm = svm_out,
                           !.knn = knn_out,
                           !.fallback = NeedsFallback(DoVal(sensors)),
                           !.dbRaised = dbFails, !.scheduled = loopOk, !.ts = ts,
                           !.rfp = rfp, !.knnp = knnp]
             /\ UNCHANGED <<active_connections, wsPhase, returned>>

(* GET /dashboard/history?limit= *)
dashboard_history(limit) ==
    /\ last' = [NoLast EXCEPT !.op = "history", !.limit = limit, !.code = 200,
                  !.rows = DashboardHistory(limit)]
    /\ UNCHANGED <<histVars, hubVars, inbox, assistantVars, sim, serviceVars>>

(***************************************************************************)
(* Live broadcast hub: ConnectionManager and the /ws/sensors handler.      *)
(***************************************************************************)
Subs == 1..MaxSubs

RemoveFirst(seq, x) ==
    IF \E i \in 1..Len(seq) : seq[i] = x
    THEN LET i == CHOOSE j \in 1..Len(seq) :
                      seq[j] = x /\ \A m \in 1..(j - 1) : seq[m] # x
         IN  SubSeq(seq, 1, i - 1) \o SubSeq(seq, i + 1, Len(seq))
    ELSE seq

(* ConnectionManager.connect, reached from websocket_sensors.  Websockets
   are numbered in the order they connect. *)
connect(w) ==
    /\ wsPhase[w] = "new"
    /\ \A u \in Subs : u < w => wsPhase[u] # "new"
    /\ wsPhase' = [wsPhase EXCEPT ![w] = "open"]
    /\ active_connections' = Append(active_connections, w)
    /\ UNCHANGED <<histVars, last, tasks, returned, inbox, assistantVars, sim, serviceVars>>

(* The handler leaves its loop while it waits in receive_text (the client
   disconnected, or an error) and its finally clause calls
   ConnectionManager.disconnect. *)
disconnect(w) ==
    /\ wsPhase[w] = "open"
    /\ wsPhase' = [wsPhase EXCEPT ![w] = "closed"]
    /\ active_connections' = RemoveFirst(active_connections, w)
    /\ UNCHANGED <<histVars, last, tasks, returned, inbox, assistantVars, sim, serviceVars>>

(* asyncio.wait_for(ws.receive_text(), timeout=60.0) raises TimeoutError:
   the handler calls ws.send_json of the keep-alive event and is suspended
   in it. *)
idle_timeout(w) ==
    /\ wsPhase[w] = "open"
    /\ wsPhase' = [wsPhase EXCEPT ![w] = "keepalive"]
    /\ UNCHANGED <<histVars, last, tasks, active_connections, returned, inbox,
                   assistantVars, sim, serviceVars>>

(* Faulty variant: a keep-alive that cannot be sent is ignored. *)
AfterKeepAliveIgnored(ok) == "open"

(* try: await ws.send_json(keep-alive) / except Exception: break *)
AfterKeepAlive(ok) == IF ok THEN "open" ELSE "closed"

(* The keep-alive send returns (the loop goes back to receive_text) or
   raises (break, then the finally clause's manager.disconnect(ws)). *)
keep_alive_sent(w, ok) ==
    /\ wsPhase[w] = "keepalive"
    /\ wsPhase' = [wsPhase EXCEPT ![w] = AfterKeepAlive(ok)]
    /\ active_connections' = IF AfterKeepAlive(ok) = "closed"
                             THEN RemoveFirst(active_connections, w)
                             ELSE active_connections
    /\ returned' = [call |-> "keep-alive", ws |-> w, ok |-> ok]
    /\ UNCHANGED <<histVars, last, tasks, inbox, assistantVars, sim, serviceVars>>

(* broadcast, from the task's start to its first await: the snapshot
   list(self.active_connections); with nobody connected it runs to its
   return without suspending.  st = "returned" marks the step in which the
   coroutine returns; st = "raised" is a coroutine ended by an exception. *)
BroadcastBegin(t, active) ==
    IF Len(active) = 0
    THEN [t EXCEPT !.st = "returned", !.snap = <<>>, !.pos = 1]
    ELSE [t EXCEPT !.st = "sending", !.snap = active, !.pos = 1]

(* Faulty variant: a failed send is not caught and ends the coroutine. *)
BroadcastAfterSendAbort(t, ok) ==
    LET conn == t.snap[t.pos]
        living == IF ok THEN Append(t.living, conn) ELSE t.living
    IN  IF ~ok
        THEN [t EXCEPT !.st = "raised", !.pos = t.pos + 1,
                       !.failedSubs = Append(t.failedSubs, conn)]
        ELSE [t EXCEPT !.st = IF t.pos = Len(t.snap) THEN "returned" ELSE "sending",
                       !.living = living, !.pos = t.pos + 1]

(* One send_json returning or raising, up to the next await or the return. *)
BroadcastAfterSend(t, ok) ==
    LET conn == t.snap[t.pos]
        living == IF ok THEN Append(t.living, conn) ELSE t.living
        failedSubs == IF ok THEN t.failedSubs ELSE Append(t.failedSubs, conn)
        failed == IF ok THEN t.failed ELSE t.failed + 1
    IN  [t EXCEPT !.st = IF t.pos = Len(t.snap) THEN "returned" ELSE "sending",
                  !.living = living, !.failed = failed,
                  !.failedSubs = failedSubs, !.pos = t.pos + 1,
                  !.sends = Append(t.sends, ok)]

(* self.active_connections = living, when the coroutine returns. *)
ActiveAfter(t, active) == IF t.st = "returned" THEN t.living ELSE active

(* Faulty variant: every subscriber of the snapshot counted as delivered. *)
BroadcastResultSnapshot(t) == <<Len(t.snap), t.failed>>

(* return len(living), failed *)
BroadcastResult(t) == <<Len(t.living), t.failed>>

NoReturn == [call |-> "none"]

(* The value a broadcast call hands back when it returns, kept with the
   size of the snapshot it iterated over and the number of its sends that
   succeeded. *)
Returned(t, was) ==
    IF t.st = "returned"
    THEN [call |-> "broadcast", value |-> BroadcastResult(t),
          subscribers |-> Len(t.snap),
          succeeded |-> Cardinality({k \in 1..Len(t.sends) : t.sends[k]})]
    ELSE was

(* The slot of a task whose coroutine returned is free again; nobody
   retrieves the exception of one that raised. *)
Settle(t) == IF t.st = "returned" THEN FreeTask ELSE t

broadcast_start(i) ==
    LET t == BroadcastBegin(tasks[i], active_connections)
    IN  /\ tasks[i].st = "scheduled"
        /\ tasks' = [tasks EXCEPT ![i] = Settle(t)]
        /\ active_connections' = ActiveAfter(t, active_connections)
        /\ returned' = Returned(t, returned)
        /\ UNCHANGED <<histVars, last, wsPhase, inbox, assistantVars, sim, serviceVars>>

broadcast_send(i, ok) ==
    LET t == BroadcastAfterSend(tasks[i], ok)
    IN  /\ tasks[i].st = "sending"
        /\ tasks' = [tasks EXCEPT ![i] = Settle(t)]
        /\ active_connections' = ActiveAfter(t, active_connections)
        /\ returned' = Returned(t, returned)
        /\ UNCHANGED <<histVars, last, wsPhase, inbox, assistantVars, sim, serviceVars>>

(***************************************************************************)
(* Multi-pond prioritisation: the four decision agents.                    *)
(* Units: dissolved oxygen, temperature, pH and turbidity in tenths,       *)
(* ammonia, nitrite and the efficiency scores in hundredths, urgency in    *)
(* 1/Scale, confidence in 1/(4 * Scale).                                   *)
(***************************************************************************)
Scale == 44 * 1000

do_min == 22          \* FARM_CONFIG["optimal_dissolved_oxygen"] = 2.2
temp_min == 260       \* FARM_CONFIG["optimal_temperature_range"][0] = 26
temp_max == 300       \* FARM_CONFIG["optimal_temperature_range"][1] = 30
ph_min == 75          \* FARM_CONFIG["optimal_ph_range"][0] = 7.5
ph_max == 85          \* FARM_CONFIG["optimal_ph_range"][1] = 8.5

(* list(ActionType), by the values of the enum. *)
ActionType ==
    <<"no_action", "increase_aeration", "decrease_aeration", "water_exchange",
      "adjust_feed", "emergency_response", "allocate_workers",
      "equipment_maintenance", "monitor_closely">>

(* The action_type_map of the XGBoost and the AutoGluon agent. *)
action_type_map ==
    <<"no_action", "increase_aeration", "decrease_aeration", "water_exchange",
      "adjust_feed", "emergency_response", "allocate_workers", "monitor_closely">>

(* The confidence n/d. *)
Conf(n, d) == (n * 4 * Scale) \div d

(* predict_proba raised: no top-class probability. *)
NoProba == 0 - 1

Min(a, b) == IF a < b THEN a ELSE b

Max(a, b) == IF a > b THEN a ELSE b

(* max(0.0, min(1.0, urgency)) *)
Clamp01(u) == Max(0, Min(Scale, u))

RECURSIVE GCD(_, _)
GCD(a, b) == IF b = 0 THEN a ELSE GCD(b, a % b)

(* The quotient n / d of two non-negative numbers, d > 0, in lowest terms. *)
Divide(n, d) == [num |-> n \div GCD(n, d), den |-> d \div GCD(n, d)]

(* One pond's entries of the four data lists, and what the trained models
   would predict for it. *)
Pond(id, profile) ==
    [pond_id |-> id, status |-> profile.status,
     dissolved_oxygen |-> profile.dissolved_oxygen, ammonia |-> profile.ammonia,
     temperature |-> profile.temperature,
     nitrite |-> profile.nitrite, turbidity |-> profile.turbidity,
     ph |-> profile.ph,
     energy_efficiency |-> profile.energy_efficiency,
     labor_efficiency |-> profile.labor_efficiency,
     next_tasks |-> profile.next_tasks,
     model_action |-> profile.model_action,
     model_proba |-> profile.model_proba,
     model_urgency |-> profile.model_urgency,
     model_priority |-> profile.model_priority]

(* next((w for w in data if w.pond_id == pond_id), data[0]) *)
Lookup(ponds, pond_id) ==
    IF \E i \in 1..Len(ponds) : ponds[i].pond_id = pond_id
    THEN ponds[CHOOSE i \in 1..Len(ponds) :
                   /\ ponds[i].pond_id = pond_id
                   /\ \A j \in 1..(i - 1) : ponds[j].pond_id # pond_id]
    ELSE ponds[1]

StatusWeight(status) ==
    CASE status = "excellent" -> 0
      [] status = "good" -> Scale \div 20
      [] status = "fair" -> Scale \div 5
      [] status = "poor" -> (2 * Scale) \div 5
      [] status = "critical" -> (13 * Scale) \div 20
      [] OTHER -> Scale \div 5

(* Faulty variant: the bump shrinks as ammonia grows. *)
ammonia_bump_falling(ammonia) ==
    IF ammonia > 20
    THEN Max(0, Scale \div 2 - ((ammonia - 20) * Scale) \div 160)
    ELSE 0

(* if wq.ammonia > 0.2: bump = min(0.5, ((wq.ammonia - 0.2) / 0.8) * 0.5) *)
ammonia_bump(ammonia) ==
    IF ammonia > 20
    THEN Min(Scale \div 2, ((ammonia - 20) * Scale) \div 160)
    ELSE 0

(* SimpleDecisionAgent._score_urgency: the urgency it returns. *)
score_urgency(p) ==
    LET do_bump ==
            IF p.dissolved_oxygen < do_min
            THEN Min(Scale \div 2,
                     ((do_min - p.dissolved_oxygen) * Scale) \div (2 * do_min))
            ELSE 0
        nearest == IF p.temperature < temp_min THEN temp_min ELSE temp_max
        delta == IF p.temperature < nearest THEN nearest - p.temperature
                 ELSE p.temperature - nearest
        temp_bump ==
            IF p.temperature < temp_min \/ p.temperature > temp_max
            THEN Min((3 * Scale) \div 10, (delta * 3 * Scale) \div 1000)
            ELSE 0
        energy_bump ==
            IF p.energy_efficiency < 70
            THEN Min(Scale \div 5, ((70 - p.energy_efficiency) * 4 * Scale) \div 1000)
            ELSE 0
        labor_bump ==
            IF p.labor_efficiency < 70
            THEN Min(Scale \div 5, ((70 - p.labor_efficiency) * 4 * Scale) \div 1000)
            ELSE 0
    IN  Clamp01(StatusWeight(p.status) + do_bump + ammonia_bump(p.ammonia)
                    + temp_bump + energy_bump + labor_bump)

(* Faulty variant: a critical status alone is no emergency. *)
emergency_triggers_no_status(p, urgency) ==
    \/ p.dissolved_oxygen < 30
    \/ p.ammonia > 50
    \/ urgency * 10 > 9 * Scale

(* wq.status.value == "critical" or wq.dissolved_oxygen < 3.0
   or wq.ammonia > 0.5 or urgency > 0.9 *)
emergency_triggers(p, urgency) ==
    \/ p.status = "critical"
    \/ p.dissolved_oxygen < 30
    \/ p.ammonia > 50
    \/ urgency * 10 > 9 * Scale

(* SimpleDecisionAgent._select_actions: the first rule that matches. *)
select_actions(p, urgency) ==
    LET low_do == p.dissolved_oxygen < do_min
        When(cond, action) == IF cond THEN <<action>> ELSE <<>>
    IN  IF emergency_triggers(p, urgency)
        THEN [primary |-> "emergency_response",
              secondary |-> When(low_do, "increase_aeration")
                            \o When(p.ammonia > 20 \/ p.nitrite > 20,
                                    "water_exchange")]
        ELSE IF low_do
        THEN [primary |-> "increase_aeration",
              secondary |-> When(p.ammonia > 20 \/ p.nitrite > 20
                                     \/ p.turbidity > 80, "water_exchange")
                            \o When(p.ammonia > 20, "adjust_feed")]
        ELSE IF p.ammonia > 20 \/ p.nitrite > 20 \/ p.turbidity > 80
        THEN [primary |-> "water_exchange",
              secondary |-> When(p.ammonia > 20, "adjust_feed")]
        ELSE IF /\ \/ p.temperature < 260
                   \/ p.temperature > 300
                   \/ p.ph < ph_min
                   \/ p.ph > ph_max
                /\ urgency * 10 > 4 * Scale
        THEN [primary |-> "adjust_feed", secondary |-> <<>>]
        ELSE IF p.energy_efficiency < 60
        THEN [primary |-> "equipment_maintenance", secondary |-> <<>>]
        ELSE IF p.labor_efficiency < 60 \/ p.next_tasks >= 3
        THEN [primary |-> "allocate_workers", secondary |-> <<>>]
        ELSE IF urgency * 100 > 25 * Scale
        THEN [primary |-> "monitor_closely", secondary |-> <<>>]
        ELSE [primary |-> "no_action", secondary |-> <<>>]

(* max(0.6, min(0.85, 0.6 + urgency * 0.25)) *)
UrgencyConfidence(urgency) ==
    Max(Conf(60, 100), Min(Conf(85, 100), Conf(60, 100) + urgency))

(* SimpleDecisionAgent._rule_confidence *)
rule_confidence(p, urgency, action) ==
    IF action = "emergency_response" THEN Conf(95, 100)
    ELSE IF /\ action \in {"increase_aeration", "water_exchange"}
            /\ p.dissolved_oxygen < do_min \/ p.ammonia > 20
    THEN Conf(90, 100)
    ELSE UrgencyConfidence(urgency)

Decision(pond_id, action, secondary, urgency, rank, confidence) ==
    [pond_id |-> pond_id, primary_action |-> action,
     secondary_actions |-> secondary, urgency_score |-> urgency,
     priority_rank |-> rank, confidence |-> confidence]

SimpleDecisionAgent_make_decision(ponds, pond_id) ==
    LET p == Lookup(ponds, pond_id)
        urgency == score_urgency(p)
        actions == select_actions(p, urgency)
    IN  Decision(pond_id, actions.primary, actions.secondary, urgency, 1,
                 rule_confidence(p, urgency, actions.primary))

(* XGBoostDecisionAgent._confidence: the largest class probability, or
   the urgency formula when predict_proba raises. *)
XGBoostConfidence(proba, urgency) ==
    IF proba # NoProba THEN proba ELSE UrgencyConfidence(urgency)

XGBoostDecisionAgent_make_decision(ponds, pond_id) ==
    LET p == Lookup(ponds, pond_id)
        action_idx == Max(0, Min(7, p.model_action))
        urgency == Clamp01(p.model_urgency)
    IN  Decision(pond_id, action_type_map[action_idx + 1], <<>>, urgency, 1,
                 XGBoostConfidence(p.model_proba, urgency))

AutoGluonDecisionAgent_make_decision(ponds, pond_id, priority_predictor) ==
    LET p == Lookup(ponds, pond_id)
        priority == IF priority_predictor THEN Max(1, Min(8, p.model_priority))
                    ELSE 1
        confidence == IF p.model_proba # NoProba THEN p.model_proba
                      ELSE Conf(80, 100)
        action_type_idx ==
            IF p.model_action < 0 \/ p.model_action >= Len(action_type_map)
            THEN 0 ELSE p.model_action
    IN  Decision(pond_id, action_type_map[action_type_idx + 1], <<>>,
                 Min(Scale, Max(0, p.model_urgency)), priority, confidence)

(* The neural agent feeds the mean of all ponds' features to the network:
   one prediction per call, whatever pond is asked for.  The prediction
   has no action_type_probs, so the confidence is the intensity of the
   chosen action; secondary actions are the others above 0.3. *)
DecisionAgent_make_decision(predictions, pond_id) ==
    LET action_type_idx == predictions.action_type
        action_type == IF action_type_idx < Len(ActionType)
                       THEN ActionType[action_type_idx + 1] ELSE "no_action"
        intensity == predictions.action_intensity
        Other(i) == /\ i # action_type_idx
                    /\ intensity[i + 1] * 10 > 3 * 4 * Scale
                    /\ i < Len(ActionType)
        others == SelectSeq([k \in 1..Len(intensity) |-> k - 1], Other)
    IN  Decision(pond_id, action_type,
                 [k \in 1..Len(others) |-> ActionType[others[k] + 1]],
                 predictions.urgency, predictions.priority,
                 intensity[action_type_idx + 1])

(* A dict in insertion order: d[key] = entry. *)
DictPut(d, entry) ==
    IF \E i \in 1..Len(d) : d[i].pond_id = entry.pond_id
    THEN [i \in 1..Len(d) |-> IF d[i].pond_id = entry.pond_id THEN entry ELSE d[i]]
    ELSE Append(d, entry)

(* sorted(decisions.items(), key=urgency_score, reverse=True): stable, so
   equal urgencies keep the order of the dict. *)
RECURSIVE UrgencySorted(_)
UrgencySorted(items) ==
    IF Len(items) = 0 THEN <<>>
    ELSE LET rest == UrgencySorted(SubSeq(items, 1, Len(items) - 1))
             x == items[Len(items)]
             k == Cardinality({i \in 1..Len(rest) :
                                   rest[i].urgency_score >= x.urgency_score})
         IN  SubSeq(rest, 1, k) \o <<x>> \o SubSeq(rest, k + 1, Len(rest))

(* sorted(priorities.items(), key=lambda x: x[1]): stable, ascending. *)
RECURSIVE PrioritySorted(_)
PrioritySorted(items) ==
    IF Len(items) = 0 THEN <<>>
    ELSE LET rest == PrioritySorted(SubSeq(items, 1, Len(items) - 1))
             x == items[Len(items)]
             k == Cardinality({i \in 1..Len(rest) : rest[i].rank <= x.rank})
         IN  SubSeq(rest, 1, k) \o <<x>> \o SubSeq(rest, k + 1, Len(rest))

(* Faulty variant: equally urgent ponds share a rank. *)
EnumerateRanksShared(sorted) ==
    [i \in 1..Len(sorted) |->
        [pond_id |-> sorted[i].pond_id,
         rank |-> 1 + Cardinality({j \in 1..Len(sorted) :
                        sorted[j].urgency_score > sorted[i].urgency_score})]]

(* for rank, (pond_id, decision) in enumerate(urgency_sorted, start=1) *)
EnumerateRanks(sorted) ==
    [i \in 1..Len(sorted) |-> [pond_id |-> sorted[i].pond_id, rank |-> i]]

RankIn(priorities, pond_id) ==
    priorities[CHOOSE i \in 1..Len(priorities) :
                   priorities[i].pond_id = pond_id].rank

RECURSIVE SumUrgency(_)
SumUrgency(decisions) ==
    IF Len(decisions) = 0 THEN 0
    ELSE decisions[1].urgency_score + SumUrgency(Tail(decisions))

RECURSIVE MaxUrgency(_)
MaxUrgency(decisions) ==
    IF Len(decisions) = 0 THEN 0
    ELSE Max(decisions[1].urgency_score, MaxUrgency(Tail(decisions)))

(* f"pond_{pond_id}" *)
PondKey(pond_id) == <<"p", "o", "n", "d", "_">> \o IntToChars(pond_id)

(* Faulty variant: the shares are taken of the largest urgency. *)
ResourceAllocationByMax(decisions) ==
    LET total_urgency == MaxUrgency(decisions)
    IN  IF total_urgency > 0
        THEN [i \in 1..Len(decisions) |->
                 [key |-> PondKey(decisions[i].pond_id),
                  share |-> Divide(decisions[i].urgency_score, total_urgency)]]
        ELSE <<>>

(* resource_allocation[f"pond_{pond_id}"] = urgency_score / total_urgency *)
ResourceAllocation(decisions) ==
    LET total_urgency == SumUrgency(decisions)
    IN  IF total_urgency > 0
        THEN [i \in 1..Len(decisions) |->
                 [key |-> PondKey(decisions[i].pond_id),
                  share |-> Divide(decisions[i].urgency_score, total_urgency)]]
        ELSE <<>>

(* urgent_ponds: the ponds above 0.7, or at 0.7 too where the agent tests
   with >=, in the order of the dict. *)
UrgentPonds(decisions, inclusive) ==
    LET Urgent(d) == \/ d.urgency_score * 10 > 7 * Scale
                     \/ inclusive /\ d.urgency_score * 10 = 7 * Scale
        keep == SelectSeq(decisions, Urgent)
    IN  [i \in 1..Len(keep) |-> keep[i].pond_id]

(* for pond_id in pond_ids: decisions[pond_id] = self.make_decision(...) *)
RECURSIVE Collect(_)
Collect(made) ==
    IF Len(made) = 0 THEN <<>>
    ELSE DictPut(Collect(SubSeq(made, 1, Len(made) - 1)), made[Len(made)])

PondIdsOf(ponds) == [i \in 1..Len(ponds) |-> ponds[i].pond_id]

MultiPondDecision(agent, priorities, urgent, decisions) ==
    [agent |-> agent, pond_priorities |-> priorities, urgent_ponds |-> urgent,
     recommended_actions |-> decisions,
     overall_urgency |-> MaxUrgency(decisions),
     resource_allocation |-> ResourceAllocation(decisions)]

(* The ranking pass shared, line for line, by the rule tier and the
   XGBoost tier. *)
Ranked(decisions) ==
    LET pond_priorities == EnumerateRanks(UrgencySorted(decisions))
    IN  [priorities |-> pond_priorities,
         decisions |-> [i \in 1..Len(decisions) |->
                           [decisions[i] EXCEPT !.priority_rank =
                               RankIn(pond_priorities, decisions[i].pond_id)]]]

SimpleDecisionAgent_make_multi_pond_decisions(ponds) ==
    LET pond_ids == PondIdsOf(ponds)
        r == Ranked(Collect([i \in 1..Len(pond_ids) |->
                        SimpleDecisionAgent_make_decision(ponds, pond_ids[i])]))
    IN  MultiPondDecision("simple", r.priorities, UrgentPonds(r.decisions, FALSE),
                          r.decisions)

XGBoostDecisionAgent_make_multi_pond_decisions(ponds) ==
    LET pond_ids == PondIdsOf(ponds)
        r == Ranked(Collect([i \in 1..Len(pond_ids) |->
                        XGBoostDecisionAgent_make_decision(ponds, pond_ids[i])]))
    IN  MultiPondDecision("xgboost", r.priorities, UrgentPonds(r.decisions, TRUE),
                          r.decisions)

(* priorities[pond_id] = decision.priority_rank, then sorted by rank. *)
OwnRanks(decisions) ==
    PrioritySorted([i \in 1..Len(decisions) |->
                       [pond_id |-> decisions[i].pond_id,
                        rank |-> decisions[i].priority_rank]])

AutoGluonDecisionAgent_make_multi_pond_decisions(ponds, priority_predictor) ==
    LET pond_ids == PondIdsOf(ponds)
        decisions == Collect([i \in 1..Len(pond_ids) |->
                         AutoGluonDecisionAgent_make_decision(
                             ponds, pond_ids[i], priority_predictor)])
    IN  MultiPondDecision("autogluon", OwnRanks(decisions),
                          UrgentPonds(decisions, FALSE), decisions)

DecisionAgent_make_multi_pond_decisions(ponds, predictions) ==
    LET pond_ids == PondIdsOf(ponds)
        decisions == Collect([i \in 1..Len(pond_ids) |->
                         DecisionAgent_make_decision(predictions, pond_ids[i])])
    IN  MultiPondDecision("neural", OwnRanks(decisions),
                          UrgentPonds(decisions, FALSE), decisions)

(***************************************************************************)
(* Specifications.                                                         *)
(*   Spec      the hub: ingestion, connections and broadcast tasks;        *)
(*   SpecInfer one request of every shape served by either ingestion path; *)
(*   SpecHist  the history table under ingestion and history queries.      *)
(***************************************************************************)
NoRequest == [path |-> "none"]
NoPrio == [agent |-> "none"]
NoDecision == [agent |-> "none"]
NoManager == [agent_type |-> "none"]
SimIdle == [pc |-> "idle"]

(* The module state of the services when the process starts. *)
ModelNames == {"random_forest_multioutput", "svm_classifier", "knn_do"}

Loaders == 1..MaxLoaders

NotCached == 0

LoaderIdle == [pc |-> "idle"]

InitCache ==
    /\ DASH_MODELS = [n \in ModelNames |-> NotCached]
    /\ loadCalls = [n \in ModelNames |-> 0]
    /\ loaders = [t \in Loaders |-> LoaderIdle]

(* The snapshot cache of GET /api/dashboard.  A key is the pair (ponds,
   seed); snapshots are numbered in the order they are generated. *)
CacheKey(ponds, seed) == [ponds |-> ponds, seed |-> seed]

CacheKeys == {CacheKey(4, Null), CacheKey(4, Num(7))}

Getters == 1..MaxGetters

GetterIdle == [pc |-> "idle"]

InitDashboard ==
    /\ DASHBOARD_CACHE = [k \in CacheKeys |-> Null]
    /\ DASHBOARD_CACHE_TS = [k \in CacheKeys |-> Null]
    /\ clock = 0
    /\ snapshots = 0
    /\ getters = [t \in Getters |-> GetterIdle]

(* The registry of in-process simulators. *)
SimPonds == {"POND_01", "POND_02"}

SimThreadIds == 1..MaxSimThreads

Controllers == 1..MaxControllers

NotStarted == [st |-> "unborn", pond |-> "", stop_event |-> FALSE]

ControllerIdle == [pc |-> "idle"]

InitSimulators ==
    /\ SIMULATORS = [pond \in SimPonds |-> 0]
    /\ simThreads = [n \in SimThreadIds |-> NotStarted]
    /\ controllers = [c \in Controllers |-> ControllerIdle]

(* sensor_history of the v2 API; a reading is named by its number among
   the readings that arrived for its pond. *)
HistoryPonds == {1, 2}

InitV2 ==
    /\ sensor_history = [pond \in HistoryPonds |-> <<>>]
    /\ arrivals = [pond \in HistoryPonds |-> 0]

InitServices == InitCache /\ InitDashboard /\ InitSimulators /\ InitV2

InitLive ==
    /\ InitServices
    /\ samples = {}
    /\ sqlite_sequence = 0
    /\ commits = <<>>
    /\ last = NoLast
    /\ active_connections = <<>>
    /\ wsPhase = [w \in Subs |-> "new"]
    /\ tasks = [i \in TaskIds |-> FreeTask]
    /\ returned = NoReturn

InitPrioIdle == prioIn = NoPrio /\ mpd = NoPrio

InitDecIdle == decIn = NoDecision /\ decision = NoDecision

InitIdle == InitPrioIdle /\ InitDecIdle /\ manager = NoManager /\ sim = SimIdle

Init == InitLive /\ inbox = NoRequest /\ InitIdle

(* Requests of the hub runs: one well-formed sample and one with a
   non-numeric feature. *)
HubSamples == {MkSensors(Absent, Num(1)), MkSensors(Num(2), Str(<<"x">>))}

HubPredictAll ==
    \E sensors \in HubSamples, dbFails \in BOOLEAN :
        /\ RowCount < MaxIngestRows
        /\ dashboard_predict_all(sensors, <<4, 7, 0>>, 1, 5, 1, dbFails)
        /\ UNCHANGED <<inbox, assistantVars, sim, serviceVars>>

Connect == \E w \in Subs : connect(w)

Disconnect == \E w \in Subs : disconnect(w)

IdleTimeout == \E w \in Subs : idle_timeout(w)

KeepAliveSent == \E w \in Subs, ok \in BOOLEAN : keep_alive_sent(w, ok)

BroadcastStart == \E i \in TaskIds : broadcast_start(i)

BroadcastSend == \E i \in TaskIds, ok \in BOOLEAN : broadcast_send(i, ok)

Next ==
    \/ HubPredictAll
    \/ Connect
    \/ Disconnect
    \/ BroadcastStart
    \/ BroadcastSend

Spec == Init /\ [][Next]_vars

(* The hub with the handlers' idle timeouts: samples arrive and are
   broadcast while subscribers connect, fall silent, are sent keep-alives
   and leave. *)
LivePredictAll ==
    /\ RowCount < MaxLiveSamples
    /\ dashboard_predict_all(MkSensors(Num(2), Num(1)), <<4, 7, 0>>, 1, 5, 1, FALSE)
    /\ UNCHANGED <<inbox, assistantVars, sim, serviceVars>>

NextLive ==
    \/ LivePredictAll
    \/ Connect
    \/ Disconnect
    \/ IdleTimeout
    \/ KeepAliveSent
    \/ BroadcastStart
    \/ BroadcastSend

SpecLive == Init /\ [][NextLive]_vars

(* The hub with a subscriber that does not read: a send_json to it stays
   suspended for as long as its connection is open, and raises once it is
   closed.  The event loop runs every coroutine that is ready, so a
   broadcast task that can start starts, and a send to a subscriber that
   reads ends. *)
SlowSubs == {1}

BroadcastSendFast ==
    \E i \in TaskIds, ok \in BOOLEAN :
        /\ tasks[i].st = "sending"
        /\ \/ tasks[i].snap[tasks[i].pos] \notin SlowSubs
           \/ wsPhase[tasks[i].snap[tasks[i].pos]] = "closed" /\ ~ok
        /\ broadcast_send(i, ok)

KeepAliveSentFast ==
    \E w \in Subs \ SlowSubs, ok \in BOOLEAN : keep_alive_sent(w, ok)

NextSlow ==
    \/ LivePredictAll
    \/ Connect
    \/ Disconnect
    \/ IdleTimeout
    \/ KeepAliveSentFast
    \/ BroadcastStart
    \/ BroadcastSendFast

SpecSlow ==
    /\ Init
    /\ [][NextSlow]_vars
    /\ WF_vars(BroadcastStart)
    /\ WF_vars(BroadcastSendFast)

(* Every shape of request: DO absent, null, not a number, a number as text,
   zero, negative, positive, NaN; the feature absent, numeric, numeric text,
   null or not a number. *)
DoInputs == {Absent, Null, Str(<<"a", "b">>), Str(<<"2">>), Str(<<"0">>),
             Num(0), Num(0 - 1), Num(2), NaN}
TempInputs == {Absent, Num(1), Str(<<"1", "2">>), Null, Str(<<"x">>)}

Requests ==
    [path : {"predict_all", "batch"}, sensors : {MkSensors(d, t) : d \in DoInputs, t \in TempInputs},
     rfp : RfOutputs, c : SvmOutputs, knnp : KnnOutputs, ts : {1},
     dbFails : BOOLEAN, loopOk : BOOLEAN]

InitInfer == InitLive /\ inbox \in Requests /\ InitIdle

InferPredictAll ==
    /\ inbox # NoRequest
    /\ inbox.path = "predict_all"
    /\ dashboard_predict_all(inbox.sensors, inbox.rfp, inbox.c, inbox.knnp,
                             inbox.ts, inbox.dbFails)
    /\ inbox' = NoRequest
    /\ UNCHANGED <<assistantVars, sim, serviceVars>>

InferBatchRow ==
    /\ inbox # NoRequest
    /\ inbox.path = "batch"
    /\ process_sample_and_persist(inbox.sensors, inbox.rfp, inbox.c, inbox.knnp,
                                  inbox.ts, inbox.dbFails, inbox.loopOk)
    /\ inbox' = NoRequest
    /\ UNCHANGED <<assistantVars, sim, serviceVars>>

NextInfer ==
    \/ InferPredictAll
    \/ InferBatchRow
    \/ Connect
    \/ Disconnect
    \/ BroadcastStart

SpecInfer == InitInfer /\ [][NextInfer]_vars

HistSamples == {MkSensors(Null, Str(<<"1", "2">>)), MkSensors(Num(0 - 1), Num(1)),
                MkSensors(Num(2), Str(<<"x">>))}
HistTs == {1}
HistLimits == (0 - 1)..MaxLimit

HistPredictAll ==
    \E sensors \in HistSamples, ts \in HistTs, dbFails \in BOOLEAN :
        /\ RowCount < MaxRows
        /\ dashboard_predict_all(sensors, <<4, 7, 0>>, 1, 5, ts, dbFails)
        /\ UNCHANGED <<inbox, assistantVars, sim, serviceVars>>

HistBatchRow ==
    \E sensors \in HistSamples, ts \in HistTs, dbFails \in BOOLEAN, loopOk \in BOOLEAN :
        /\ RowCount < MaxRows
        /\ process_sample_and_persist(sensors, <<4, 7, 0>>, 1, 5, ts, dbFails, loopOk)
        /\ UNCHANGED <<inbox, assistantVars, sim, serviceVars>>

HistoryQuery == \E limit \in HistLimits : dashboard_history(limit)

NextHist ==
    \/ HistPredictAll
    \/ HistBatchRow
    \/ HistoryQuery
    \/ BroadcastStart

SpecHist == Init /\ [][NextHist]_vars


(***************************************************************************)
(* SpecPrio: one call of make_multi_pond_decisions of each agent, on every *)
(* list of up to MaxPonds different ponds in every order.                  *)
(***************************************************************************)
PondIds == 1..MaxPonds

Normal ==
    [status |-> "excellent", dissolved_oxygen |-> 50, ammonia |-> 10,
     temperature |-> 280, nitrite |-> 10, turbidity |-> 50, ph |-> 80,
     energy_efficiency |-> 80, labor_efficiency |-> 80, next_tasks |-> 0,
     model_action |-> 0, model_proba |-> Conf(1, 2),
     model_urgency |-> 0, model_priority |-> 1]

(* The eight outputs of the action_intensity head: one value for the
   first six actions, another for the last two. *)
Intensities(a, b) == [k \in 1..8 |-> IF k <= 6 THEN a ELSE b]

(* Urgencies 0, 0.2 (by status), 0.2 (by ammonia), 1.0 (clamped) and 0.7
   (0.4 for the status and 0.3 for the temperature, a sum that is 0.7 in
   binary floating point too). *)
SimpleProfiles ==
    {Normal,
     [Normal EXCEPT !.status = "fair"],
     [Normal EXCEPT !.ammonia = 52],
     [Normal EXCEPT !.status = "critical", !.dissolved_oxygen = 0],
     [Normal EXCEPT !.status = "poor", !.temperature = 410]}

XGBoostProfiles ==
    {[Normal EXCEPT !.model_urgency = u] :
        u \in {0 - (Scale \div 10), 0, Scale \div 5, (7 * Scale) \div 10,
               (6 * Scale) \div 5}}

AutoGluonProfiles ==
    {[Normal EXCEPT !.model_urgency = u, !.model_priority = r] :
        u \in {0, (6 * Scale) \div 5}, r \in {0, 2, 9}}
    \cup {[Normal EXCEPT !.model_urgency = (7 * Scale) \div 10,
                         !.model_priority = 2]}

NeuralPredictions ==
    [urgency : {0, Scale \div 2, (4 * Scale) \div 5}, priority : {1, 2, 8},
     action_type : {0}, action_intensity : {Intensities(Conf(1, 2), 0)}]

NoPredictions ==
    [urgency |-> 0, priority |-> 1, action_type |-> 0,
     action_intensity |-> Intensities(Conf(1, 2), 0)]

IdLists ==
    UNION {{ids \in [1..n -> PondIds] :
               \A i, j \in 1..n : i # j => ids[i] # ids[j]} : n \in 0..MaxPonds}

Agents == {"simple", "xgboost", "autogluon", "neural"}

ProfilesOf(agent) ==
    CASE agent = "simple" -> SimpleProfiles
      [] agent = "xgboost" -> XGBoostProfiles
      [] agent = "autogluon" -> AutoGluonProfiles
      [] OTHER -> {Normal}

(* Whether the AutoGluon agent has loaded a priority predictor. *)
PredictorChoices(agent) == IF agent = "autogluon" THEN BOOLEAN ELSE {FALSE}

PredictionChoices(agent) ==
    IF agent = "neural" THEN NeuralPredictions ELSE {NoPredictions}

InitPrio ==
    /\ InitLive
    /\ inbox = NoRequest
    /\ mpd = NoPrio
    /\ InitDecIdle
    /\ manager = NoManager
    /\ sim = SimIdle
    /\ \E agent \in Agents, ids \in IdLists :
           \E prof \in [1..Len(ids) -> ProfilesOf(agent)],
              priority_predictor \in PredictorChoices(agent),
              predictions \in PredictionChoices(agent) :
               prioIn = [agent |-> agent,
                         ponds |-> [i \in 1..Len(ids) |-> Pond(ids[i], prof[i])],
                         priority_predictor |-> priority_predictor,
                         predictions |-> predictions]

SimpleMulti ==
    /\ prioIn.agent = "simple"
    /\ mpd = NoPrio
    /\ mpd' = SimpleDecisionAgent_make_multi_pond_decisions(prioIn.ponds)
    /\ UNCHANGED <<histVars, hubVars, last, inbox, prioIn, decVars, manager, sim, serviceVars>>

XGBoostMulti ==
    /\ prioIn.agent = "xgboost"
    /\ mpd = NoPrio
    /\ mpd' = XGBoostDecisionAgent_make_multi_pond_decisions(prioIn.ponds)
    /\ UNCHANGED <<histVars, hubVars, last, inbox, prioIn, decVars, manager, sim, serviceVars>>

AutoGluonMulti ==
    /\ prioIn.agent = "autogluon"
    /\ mpd = NoPrio
    /\ mpd' = AutoGluonDecisionAgent_make_multi_pond_decisions(
                  prioIn.ponds, prioIn.priority_predictor)
    /\ UNCHANGED <<histVars, hubVars, last, inbox, prioIn, decVars, manager, sim, serviceVars>>

NeuralMulti ==
    /\ prioIn.agent = "neural"
    /\ mpd = NoPrio
    /\ mpd' = DecisionAgent_make_multi_pond_decisions(prioIn.ponds,
                                                      prioIn.predictions)
    /\ UNCHANGED <<histVars, hubVars, last, inbox, prioIn, decVars, manager, sim, serviceVars>>

NextPrio ==
    \/ SimpleMulti
    \/ XGBoostMulti
    \/ AutoGluonMulti
    \/ NeuralMulti

SpecPrio == InitPrio /\ [][NextPrio]_vars

(***************************************************************************)
(* SpecDecide: make_decision of each agent on one pond; the rule tier is   *)
(* called again on the same pond with another ammonia reading.             *)
(***************************************************************************)
Statuses == {"excellent", "fair", "poor", "critical"}
DoValues == {20, 25, 50}
AmmoniaValues == {10, 30, 60}
NitriteValues == {10, 30}
TurbidityValues == {50, 90}
TemperatureValues == {250, 280}
PhValues == {70, 80}
EnergyValues == {50, 65, 80}
LaborValues == {50, 80}
TaskCounts == {0, 3}

(* What the trained models answer: an action index (in and out of range),
   a top-class probability or none, an urgency. *)
ModelActions == {0 - 1, 0, 5, 9}
ModelProbas == {NoProba, Conf(1, 2), Conf(95, 100)}
ModelUrgencies == {0, (19 * Scale) \div 20, (6 * Scale) \div 5}

DecidePredictions ==
    [urgency : {(19 * Scale) \div 20}, priority : {1}, action_type : {0, 5, 7},
     action_intensity : {Intensities(Conf(1, 2), Conf(1, 5)),
                         Intensities(Conf(95, 100), Conf(2, 5))}]

NoEarlier == [call |-> "none"]

DecIn(agent, profile, priority_predictor, predictions) ==
    [agent |-> agent, pond |-> Pond(1, profile),
     priority_predictor |-> priority_predictor, predictions |-> predictions]

InitDecide ==
    /\ InitLive
    /\ inbox = NoRequest
    /\ InitPrioIdle
    /\ manager = NoManager
    /\ sim = SimIdle
    /\ decision = NoDecision
    /\ \/ \E st \in Statuses, do \in DoValues, am \in AmmoniaValues,
              ni \in NitriteValues, tu \in TurbidityValues,
              te \in TemperatureValues, ph \in PhValues, en \in EnergyValues,
              la \in LaborValues, nt \in TaskCounts :
               decIn = DecIn("simple",
                             [Normal EXCEPT !.status = st, !.dissolved_oxygen = do,
                                 !.ammonia = am, !.nitrite = ni, !.turbidity = tu,
                                 !.temperature = te, !.ph = ph,
                                 !.energy_efficiency = en, !.labor_efficiency = la,
                                 !.next_tasks = nt],
                             FALSE, NoPredictions)
       \/ \E agent \in {"xgboost", "autogluon"}, a \in ModelActions,
              pr \in ModelProbas, u \in ModelUrgencies,
              priority_predictor \in BOOLEAN :
               /\ agent = "xgboost" => ~priority_predictor
               /\ decIn = DecIn(agent,
                                [Normal EXCEPT !.model_action = a,
                                    !.model_proba = pr, !.model_urgency = u],
                                priority_predictor, NoPredictions)
       \/ \E predictions \in DecidePredictions :
               decIn = DecIn("neural", Normal, FALSE, predictions)

Decided1(agent, output, earlier) ==
    [agent |-> agent, output |-> output, earlier |-> earlier]

SimpleDecide ==
    /\ decIn.agent = "simple"
    /\ decision = NoDecision
    /\ decision' = Decided1("simple",
                       SimpleDecisionAgent_make_decision(<<decIn.pond>>,
                                                         decIn.pond.pond_id),
                       NoEarlier)
    /\ UNCHANGED <<histVars, hubVars, last, inbox, prioVars, decIn, manager, sim, serviceVars>>

(* A second call, the pond unchanged but for its ammonia. *)
SimpleDecideAgain ==
    /\ decIn.agent = "simple"
    /\ decision # NoDecision
    /\ \E am \in AmmoniaValues \ {decIn.pond.ammonia} :
           LET pond == [decIn.pond EXCEPT !.ammonia = am]
           IN  /\ decIn' = [decIn EXCEPT !.pond = pond]
               /\ decision' =
                      Decided1("simple",
                          SimpleDecisionAgent_make_decision(<<pond>>, pond.pond_id),
                          [call |-> "make_decision", pond |-> decIn.pond,
                           output |-> decision.output])
    /\ UNCHANGED <<histVars, hubVars, last, inbox, prioVars, manager, sim, serviceVars>>

XGBoostDecide ==
    /\ decIn.agent = "xgboost"
    /\ decision = NoDecision
    /\ decision' = Decided1("xgboost",
                       XGBoostDecisionAgent_make_decision(<<decIn.pond>>,
                                                          decIn.pond.pond_id),
                       NoEarlier)
    /\ UNCHANGED <<histVars, hubVars, last, inbox, prioVars, decIn, manager, sim, serviceVars>>

AutoGluonDecide ==
    /\ decIn.agent = "autogluon"
    /\ decision = NoDecision
    /\ decision' = Decided1("autogluon",
                       AutoGluonDecisionAgent_make_decision(
                           <<decIn.pond>>, decIn.pond.pond_id,
                           decIn.priority_predictor),
                       NoEarlier)
    /\ UNCHANGED <<histVars, hubVars, last, inbox, prioVars, decIn, manager, sim, serviceVars>>

NeuralDecide ==
    /\ decIn.agent = "neural"
    /\ decision = NoDecision
    /\ decision' = Decided1("neural",
                       DecisionAgent_make_decision(decIn.predictions,
                                                   decIn.pond.pond_id),
                       NoEarlier)
    /\ UNCHANGED <<histVars, hubVars, last, inbox, prioVars, decIn, manager, sim, serviceVars>>

NextDecide ==
    \/ SimpleDecide
    \/ SimpleDecideAgain
    \/ XGBoostDecide
    \/ AutoGluonDecide
    \/ NeuralDecide

SpecDecide == InitDecide /\ [][NextDecide]_vars

(***************************************************************************)
(* SpecManager: ManagerAgent.__init__ for every argument, configuration    *)
(* and availability of the agents' modules and model files.                *)
(***************************************************************************)
None == "None"

(* str.lower() on the agent types that are passed. *)
Lower(t) ==
    CASE t = "XGBoost" -> "xgboost"
      [] t = "Simple" -> "simple"
      [] OTHER -> t

(* x or y on strings and None. *)
Or(x, y) == IF x = None \/ x = "" THEN y ELSE x

(* The decision_agent_type argument and DECISION_MODEL_CONFIG["agent_type"]
   (lower case already, "" when the variable is set empty). *)
AgentTypeArgs ==
    {None, "autogluon", "xgboost", "XGBoost", "xgb", "simple", "Simple",
     "rules", "tiny", "lite", "none", "other"}
ConfigAgentTypes == {"xgboost", "autogluon", "simple", "tiny", "none", ""}

(* What importing and constructing an ML agent comes to: its models are
   loaded, they are not there, or an ImportError or another exception is
   raised on the way. *)
AgentOutcomes == {"trained", "untrained", "ImportError", "Exception"}

ManagerCall(use_autogluon, decision_agent_type, enabled, agent_type, xgb, ag) ==
    [pc |-> "call", use_autogluon |-> use_autogluon,
     decision_agent_type |-> decision_agent_type,
     use_decision_model |-> enabled, agent_type |-> agent_type,
     xgboost |-> xgb, autogluon |-> ag]

(* requested_type and use_decision_agent, lines 52-60. *)
RequestedType(c) ==
    IF c.use_autogluon = "False" THEN "none"
    ELSE IF c.use_autogluon = "True" THEN "autogluon"
    ELSE Lower(Or(Or(c.decision_agent_type, c.agent_type), "autogluon"))

UseDecisionAgent(c) ==
    /\ c.use_autogluon # "False"
    /\ c.use_decision_model
    /\ RequestedType(c) # "none"

Constructed(c, type, agent) ==
    [pc |-> "constructed", call |-> c, use_decision_agent |-> UseDecisionAgent(c),
     decision_agent_type |-> type, decision_agent |-> agent]

Raised(c, exception) == [pc |-> "raised", call |-> c, exception |-> exception]

(* try: agent = Agent() ... except ImportError/Exception: the fallback to
   SimpleDecisionAgent, shared by the XGBoost and the AutoGluon branch. *)
WithFallback(c, type, agent, outcome) ==
    IF outcome = "trained" THEN Constructed(c, type, agent)
    ELSE Constructed(c, "simple", "SimpleDecisionAgent")

(* models/tiny_decision_agent.py is not part of the repository: the import
   raises ModuleNotFoundError, and nothing in __init__ catches it. *)
ManagerAgent_init(c) ==
    LET type == RequestedType(c)
    IN  IF ~UseDecisionAgent(c) THEN Constructed(c, type, None)
        ELSE IF type \in {"tiny", "minimal", "lite"}
        THEN Raised(c, "ModuleNotFoundError")
        ELSE IF type \in {"simple", "rules", "rule_based", "baseline"}
        THEN Constructed(c, type, "SimpleDecisionAgent")
        ELSE IF type \in {"xgboost", "xgb"}
        THEN WithFallback(c, type, "XGBoostDecisionAgent", c.xgboost)
        ELSE WithFallback(c, type, "AutoGluonDecisionAgent", c.autogluon)

InitManager ==
    /\ InitLive
    /\ inbox = NoRequest
    /\ InitPrioIdle
    /\ InitDecIdle
    /\ sim = SimIdle
    /\ \E use_autogluon \in {None, "True", "False"},
          decision_agent_type \in AgentTypeArgs, enabled \in BOOLEAN,
          agent_type \in ConfigAgentTypes, xgb \in AgentOutcomes,
          ag \in AgentOutcomes :
           manager = ManagerCall(use_autogluon, decision_agent_type, enabled,
                                 agent_type, xgb, ag)

ManagerInit ==
    /\ manager.pc = "call"
    /\ manager' = ManagerAgent_init(manager)
    /\ UNCHANGED <<histVars, hubVars, last, inbox, prioVars, decVars, sim, serviceVars>>

NextManager == ManagerInit

SpecManager == InitManager /\ [][NextManager]_vars

(***************************************************************************)
(* SpecSim: the telemetry simulator.  run() executes in one thread and     *)
(* stop() is called from another; time is counted in polling steps of      *)
(* 0.2 s, sleep_t being the number of steps the drawn interval takes.      *)
(***************************************************************************)
SimNew ==
    [pc |-> "new", stop_event |-> FALSE, stop_called |-> FALSE, iterations |-> 0,
     sleep_t |-> 0, waited |-> 0, exception |-> "none"]

(* run() is entered: the while test comes next. *)
SimRun ==
    /\ sim.pc = "new"
    /\ sim' = [sim EXCEPT !.pc = "while"]

(* while not self._stop_event.is_set(); leaving the loop runs the finally
   clause, which sets the event, and run() returns. *)
SimWhile ==
    /\ sim.pc = "while"
    /\ ~sim.stop_event => sim.iterations < MaxIterations
    /\ sim' = IF sim.stop_event
              THEN [sim EXCEPT !.pc = "returned"]
              ELSE [sim EXCEPT !.pc = "body", !.iterations = sim.iterations + 1]

(* generate(), post() with its request timeouts, the optional hourly
   aggregation, then sleep_t = random.uniform(interval_min, interval_max). *)
SimBody ==
    /\ sim.pc = "body"
    /\ \E sleep_t \in 1..MaxSleepSteps :
           sim' = [sim EXCEPT !.pc = "sleep", !.sleep_t = sleep_t, !.waited = 0]

(* The body raising: KeyboardInterrupt is caught, anything else (the log
   file cannot be written) leaves run() through the finally clause. *)
SimBodyRaises ==
    /\ sim.pc = "body"
    /\ \E e \in {"KeyboardInterrupt", "OSError"} :
           sim' = [sim EXCEPT !.pc = IF e = "KeyboardInterrupt" THEN "returned"
                                     ELSE "raised",
                              !.stop_event = TRUE, !.exception = e]

(* Faulty variant: the sleep does not look at the stop signal. *)
KeepsSleepingDeaf(s) == s.waited < s.sleep_t

(* while waited < sleep_t and not self._stop_event.is_set() *)
KeepsSleeping(s) == s.waited < s.sleep_t /\ ~s.stop_event

SimSleepTest ==
    /\ sim.pc = "sleep"
    /\ sim' = IF KeepsSleeping(sim) THEN [sim EXCEPT !.pc = "sleeping"]
              ELSE [sim EXCEPT !.pc = "while"]

(* time.sleep(min(step, sleep_t - waited)) returns; waited += step *)
SimSleepStep ==
    /\ sim.pc = "sleeping"
    /\ sim' = [sim EXCEPT !.pc = "sleep", !.waited = sim.waited + 1]

(* Simulator.stop(), from another thread, at any time. *)
SimStop ==
    /\ sim.pc # "idle"
    /\ ~sim.stop_called
    /\ sim' = [sim EXCEPT !.stop_event = TRUE, !.stop_called = TRUE]

SimThread ==
    \/ SimRun
    \/ SimWhile
    \/ SimBody
    \/ SimBodyRaises
    \/ SimSleepTest
    \/ SimSleepStep

InitSim ==
    /\ InitLive
    /\ inbox = NoRequest
    /\ InitPrioIdle
    /\ InitDecIdle
    /\ manager = NoManager
    /\ sim = SimNew

NextSim ==
    /\ \/ SimRun
       \/ SimWhile
       \/ SimBody
       \/ SimBodyRaises
       \/ SimSleepTest
       \/ SimSleepStep
       \/ SimStop
    /\ UNCHANGED <<histVars, hubVars, last, inbox, assistantVars, serviceVars>>

(* The thread of run() is scheduled again and again; nothing makes the
   other thread call stop(). *)
SpecSim ==
    /\ InitSim
    /\ [][NextSim]_vars
    /\ WF_vars(SimThread /\ UNCHANGED <<histVars, hubVars, last, inbox,
                                        assistantVars, serviceVars>>)

(***************************************************************************)
(* The cache of the dashboard models: _load_dashboard_model, called by     *)
(* request handlers that run in the threads of the server's pool.  Each    *)
(* joblib.load makes a new object; objects are numbered per model name in  *)
(* the order they are loaded.                                              *)
(***************************************************************************)
(* if name in _DASH_MODELS: return _DASH_MODELS[name] *)
load_dashboard_model_check(t, name) ==
    /\ loaders[t].pc = "idle"
    /\ loaders' = [loaders EXCEPT ![t] =
                      IF DASH_MODELS[name] # NotCached
                      THEN [pc |-> "returned", name |-> name,
                            value |-> DASH_MODELS[name]]
                      ELSE [pc |-> "miss", name |-> name]]
    /\ UNCHANGED <<DASH_MODELS, loadCalls>>

(* p.exists(), the trainer when it does not, and obj = joblib.load(p);
   FileNotFoundError when the file is still missing. *)
load_dashboard_model_load(t, exists) ==
    LET name == loaders[t].name
    IN  /\ loaders[t].pc = "miss"
        /\ IF exists
           THEN /\ loadCalls' = [loadCalls EXCEPT ![name] = @ + 1]
                /\ loaders' = [loaders EXCEPT ![t] =
                                  [pc |-> "loaded", name |-> name,
                                   obj |-> loadCalls[name] + 1]]
           ELSE /\ loaders' = [loaders EXCEPT ![t] =
                                  [pc |-> "raised", name |-> name]]
                /\ UNCHANGED loadCalls
        /\ UNCHANGED DASH_MODELS

(* _DASH_MODELS[name] = {'model': ..., 'feature_names': ...} *)
load_dashboard_model_store(t) ==
    LET name == loaders[t].name
    IN  /\ loaders[t].pc = "loaded"
        /\ DASH_MODELS' = [DASH_MODELS EXCEPT ![name] = loaders[t].obj]
        /\ loaders' = [loaders EXCEPT ![t] = [pc |-> "stored", name |-> name]]
        /\ UNCHANGED loadCalls

(* return _DASH_MODELS[name] *)
load_dashboard_model_return(t) ==
    LET name == loaders[t].name
    IN  /\ loaders[t].pc = "stored"
        /\ loaders' = [loaders EXCEPT ![t] =
                          [pc |-> "returned", name |-> name,
                           value |-> DASH_MODELS[name]]]
        /\ UNCHANGED <<DASH_MODELS, loadCalls>>

(* The request is answered and its thread takes the next one. *)
request_done(t) ==
    /\ loaders[t].pc \in {"returned", "raised"}
    /\ loaders' = [loaders EXCEPT ![t] = LoaderIdle]
    /\ UNCHANGED <<DASH_MODELS, loadCalls>>

CacheCheck == \E t \in Loaders, name \in ModelNames : load_dashboard_model_check(t, name)

CacheLoad == \E t \in Loaders, exists \in BOOLEAN : load_dashboard_model_load(t, exists)

CacheStore == \E t \in Loaders : load_dashboard_model_store(t)

CacheReturn == \E t \in Loaders : load_dashboard_model_return(t)

RequestDone == \E t \in Loaders : request_done(t)

NextCache ==
    /\ \/ CacheCheck
       \/ CacheLoad
       \/ CacheStore
       \/ CacheReturn
       \/ RequestDone
    /\ UNCHANGED <<histVars, hubVars, last, inbox, assistantVars, sim, dashVars,
                   simsVars, v2Vars>>

SpecCache == Init /\ [][NextCache]_vars

(***************************************************************************)
(* GET /api/dashboard of the assistant's API (api/server.py): a plain def  *)
(* endpoint, so requests run in the threads of the server's pool.          *)
(***************************************************************************)
GetRequest(key, fresh, cache_ttl_s, now) ==
    [key |-> key, fresh |-> fresh, cache_ttl_s |-> cache_ttl_s, now |-> now]

(* Faulty variant: the fresh flag is not looked at. *)
CacheHitIgnoringFresh(r) ==
    /\ r.cache_ttl_s > 0
    /\ DASHBOARD_CACHE_TS[r.key] # Null
    /\ r.now - DASHBOARD_CACHE_TS[r.key].v <= r.cache_ttl_s
    /\ DASHBOARD_CACHE[r.key] # Null

(* if not fresh and cache_ttl_s > 0: ts = _DASHBOARD_CACHE_TS.get(key);
   if ts is not None and (now - ts) <= cache_ttl_s:
   cached = _DASHBOARD_CACHE.get(key); if cached is not None *)
CacheHit(r) ==
    /\ ~r.fresh
    /\ r.cache_ttl_s > 0
    /\ DASHBOARD_CACHE_TS[r.key] # Null
    /\ r.now - DASHBOARD_CACHE_TS[r.key].v <= r.cache_ttl_s
    /\ DASHBOARD_CACHE[r.key] # Null

(* From the call to the return of the cached snapshot, or to the start of
   the simulation. *)
get_dashboard_begin(t, key, fresh, cache_ttl_s) ==
    LET r == GetRequest(key, fresh, cache_ttl_s, clock)
    IN  /\ getters[t].pc = "idle"
        /\ getters' = [getters EXCEPT ![t] =
                          IF CacheHit(r)
                          THEN [pc |-> "returned", req |-> r,
                                response |-> DASHBOARD_CACHE[key],
                                generated |-> FALSE]
                          ELSE [pc |-> "generating", req |-> r]]
        /\ UNCHANGED <<DASHBOARD_CACHE, DASHBOARD_CACHE_TS, clock, snapshots>>

(* The simulation, the payload, and if cache_ttl_s > 0 the two stores. *)
get_dashboard_finish(t) ==
    LET r == getters[t].req
        payload == Num(snapshots + 1)
    IN  /\ getters[t].pc = "generating"
        /\ snapshots < MaxSnapshots
        /\ snapshots' = snapshots + 1
        /\ IF r.cache_ttl_s > 0
           THEN /\ DASHBOARD_CACHE' = [DASHBOARD_CACHE EXCEPT ![r.key] = payload]
                /\ DASHBOARD_CACHE_TS' =
                       [DASHBOARD_CACHE_TS EXCEPT ![r.key] = Num(r.now)]
           ELSE UNCHANGED <<DASHBOARD_CACHE, DASHBOARD_CACHE_TS>>
        /\ getters' = [getters EXCEPT ![t] =
                          [pc |-> "returned", req |-> r, response |-> payload,
                           generated |-> TRUE]]
        /\ UNCHANGED clock

(* The response is sent and the thread takes the next request. *)
get_dashboard_done(t) ==
    /\ getters[t].pc = "returned"
    /\ getters' = [getters EXCEPT ![t] = GetterIdle]
    /\ UNCHANGED <<DASHBOARD_CACHE, DASHBOARD_CACHE_TS, clock, snapshots>>

(* A second passes. *)
Tick ==
    /\ clock < MaxClock
    /\ clock' = clock + 1
    /\ UNCHANGED <<DASHBOARD_CACHE, DASHBOARD_CACHE_TS, snapshots, getters>>

TtlValues == {0, 1}

GetDashboardBegin ==
    \E t \in Getters, key \in CacheKeys, fresh \in BOOLEAN,
       cache_ttl_s \in TtlValues :
        get_dashboard_begin(t, key, fresh, cache_ttl_s)

GetDashboardFinish == \E t \in Getters : get_dashboard_finish(t)

GetDashboardDone == \E t \in Getters : get_dashboard_done(t)

NextDashboard ==
    /\ \/ GetDashboardBegin
       \/ GetDashboardFinish
       \/ GetDashboardDone
       \/ Tick
    /\ UNCHANGED <<histVars, hubVars, last, inbox, assistantVars, sim, cacheVars,
                   simsVars, v2Vars>>

SpecDashboard == Init /\ [][NextDashboard]_vars

(***************************************************************************)
(* POST /dashboard/simulator/start and /dashboard/simulator/stop: plain    *)
(* def endpoints, run in the threads of the server's pool, and the         *)
(* simulator threads they start.                                           *)
(***************************************************************************)
NoEntry == 0

Answer(op, pond, response, entry) ==
    [pc |-> "returned", op |-> op, pond |-> pond, response |-> response,
     entry |-> entry]

(* pond = req.get('pond'); if pond in _SIMULATORS: return already_running *)
simulator_start_check(c, pond) ==
    /\ controllers[c].pc = "idle"
    /\ controllers' = [controllers EXCEPT ![c] =
                          IF SIMULATORS[pond] # NoEntry
                          THEN Answer("start", pond, "already_running", NoEntry)
                          ELSE [pc |-> "starting", pond |-> pond]]
    /\ UNCHANGED <<SIMULATORS, simThreads>>

(* sim = SimulatorClass(...); t = threading.Thread(target=sim.run);
   t.start(); _SIMULATORS[pond] = {'thread': t, 'sim': sim, ...} *)
simulator_start_launch(c) ==
    LET pond == controllers[c].pond
        n == CHOOSE k \in SimThreadIds :
                 /\ simThreads[k].st = "unborn"
                 /\ \A j \in 1..(k - 1) : simThreads[j].st # "unborn"
    IN  /\ controllers[c].pc = "starting"
        /\ \E k \in SimThreadIds : simThreads[k].st = "unborn"
        /\ simThreads' = [simThreads EXCEPT ![n] =
                             [st |-> "alive", pond |-> pond, stop_event |-> FALSE]]
        /\ SIMULATORS' = [SIMULATORS EXCEPT ![pond] = n]
        /\ controllers' = [controllers EXCEPT ![c] =
                              Answer("start", pond, "started", n)]

(* entry = _SIMULATORS.get(pond); if not entry: return not_running;
   sim.stop(), then the handler waits in entry['thread'].join(timeout=5) *)
simulator_stop_begin(c, pond) ==
    LET entry == SIMULATORS[pond]
    IN  /\ controllers[c].pc = "idle"
        /\ IF entry = NoEntry
           THEN /\ controllers' = [controllers EXCEPT ![c] =
                                      Answer("stop", pond, "not_running", NoEntry)]
                /\ UNCHANGED simThreads
           ELSE /\ simThreads' = [simThreads EXCEPT ![entry].stop_event = TRUE]
                /\ controllers' = [controllers EXCEPT ![c] =
                                      [pc |-> "joining", pond |-> pond,
                                       entry |-> entry]]
        /\ UNCHANGED SIMULATORS

(* join(timeout=5) returns because the thread has ended or because five
   seconds have passed; _SIMULATORS.pop(pond, None); return stopped *)
simulator_stop_join(c) ==
    LET pond == controllers[c].pond
    IN  /\ controllers[c].pc = "joining"
        /\ SIMULATORS' = [SIMULATORS EXCEPT ![pond] = NoEntry]
        /\ controllers' = [controllers EXCEPT ![c] =
                              Answer("stop", pond, "stopped", controllers[c].entry)]
        /\ UNCHANGED simThreads

(* Simulator.run returns: its loop saw the stop event, or something in the
   loop raised (run catches KeyboardInterrupt only). *)
simulator_run_ends(n, raises) ==
    /\ simThreads[n].st = "alive"
    /\ simThreads[n].stop_event \/ raises
    /\ simThreads' = [simThreads EXCEPT ![n].st = "dead", ![n].stop_event = TRUE]
    /\ UNCHANGED <<SIMULATORS, controllers>>

(* The response is sent and the thread takes the next request. *)
controller_done(c) ==
    /\ controllers[c].pc = "returned"
    /\ controllers' = [controllers EXCEPT ![c] = ControllerIdle]
    /\ UNCHANGED <<SIMULATORS, simThreads>>

SimulatorStartCheck ==
    \E c \in Controllers, pond \in SimPonds : simulator_start_check(c, pond)

SimulatorStartLaunch == \E c \in Controllers : simulator_start_launch(c)

SimulatorStopBegin ==
    \E c \in Controllers, pond \in SimPonds : simulator_stop_begin(c, pond)

SimulatorStopJoin == \E c \in Controllers : simulator_stop_join(c)

SimulatorRunEnds ==
    \E n \in SimThreadIds, raises \in BOOLEAN : simulator_run_ends(n, raises)

ControllerDone == \E c \in Controllers : controller_done(c)

NextSimulators ==
    /\ \/ SimulatorStartCheck
       \/ SimulatorStartLaunch
       \/ SimulatorStopBegin
       \/ SimulatorStopJoin
       \/ SimulatorRunEnds
       \/ ControllerDone
    /\ UNCHANGED <<histVars, hubVars, last, inbox, assistantVars, sim, cacheVars,
                   dashVars, v2Vars>>

SpecSimulators == Init /\ [][NextSimulators]_vars

(***************************************************************************)
(* sensor_history of the v2 API (backend-v2/api.py), written by            *)
(* POST /api/predict and POST /api/predict/batch.                          *)
(***************************************************************************)
MAX_HISTORY_LENGTH == 100

(* sensor_history[pond_id][-MAX_HISTORY_LENGTH:] *)
LastReadings(h) ==
    IF Len(h) > MAX_HISTORY_LENGTH
    THEN SubSeq(h, Len(h) - MAX_HISTORY_LENGTH + 1, Len(h))
    ELSE h

(* predict: sensor_history[pond_id].append(sensor_data); if the list is
   longer than MAX_HISTORY_LENGTH, keep its last MAX_HISTORY_LENGTH *)
predict(pond_id) ==
    /\ arrivals[pond_id] < MaxArrivals
    /\ arrivals' = [arrivals EXCEPT ![pond_id] = @ + 1]
    /\ sensor_history' = [sensor_history EXCEPT ![pond_id] =
                             LastReadings(Append(@, arrivals[pond_id] + 1))]

(* The number of entries of a batch that are for one pond. *)
RECURSIVE CountFor(_, _)
CountFor(ponds, pond_id) ==
    IF ponds = <<>> THEN 0
    ELSE (IF Head(ponds) = pond_id THEN 1 ELSE 0) + CountFor(Tail(ponds), pond_id)

(* predict_batch: for pond_data in data["ponds"]:
   sensor_history[pond_id].append(pond_data), and nothing more *)
RECURSIVE BatchAppend(_, _, _)
BatchAppend(history, arrived, ponds) ==
    IF ponds = <<>> THEN history
    ELSE LET pond_id == Head(ponds)
         IN  BatchAppend([history EXCEPT ![pond_id] =
                              Append(@, arrived[pond_id] + 1)],
                         [arrived EXCEPT ![pond_id] = @ + 1],
                         Tail(ponds))

predict_batch(ponds) ==
    /\ \A pond_id \in HistoryPonds :
          arrivals[pond_id] + CountFor(ponds, pond_id) <= MaxArrivals
    /\ arrivals' = [pond_id \in HistoryPonds |->
                       arrivals[pond_id] + CountFor(ponds, pond_id)]
    /\ sensor_history' = BatchAppend(sensor_history, arrivals, ponds)

Batches == UNION {[1..n -> HistoryPonds] : n \in 1..MaxBatch}

Predict == \E pond_id \in HistoryPonds : predict(pond_id)

PredictBatch == \E ponds \in Batches : predict_batch(ponds)

NextV2 ==
    /\ \/ Predict
       \/ PredictBatch
    /\ UNCHANGED <<histVars, hubVars, last, inbox, assistantVars, sim, cacheVars,
                   dashVars, simsVars>>

SpecV2 == Init /\ [][NextV2]_vars

(***************************************************************************)
(* Properties of the broadcast hub.                                        *)
(***************************************************************************)
Range(seq) == {seq[i] : i \in 1..Len(seq)}

IsIngestion(r) == r.op \in {"predict_all", "batch"}

(* C1: a broadcast raises no error to its caller, goes on to every other
   subscriber of its snapshot after a failed send, and when it returns the
   active set is the snapshot without exactly the subscribers whose send
   failed. *)
C1_BroadcastIsolatesFailures ==
    /\ [](\A i \in TaskIds : tasks[i].st # "raised")
    /\ [][\A i \in TaskIds :
            /\ (broadcast_start(i) /\ active_connections = <<>>) =>
                   tasks'[i].st = "free" /\ active_connections' = <<>>
            /\ \A ok \in BOOLEAN :
                   broadcast_send(i, ok) =>
                       LET t == tasks[i]
                           conn == t.snap[t.pos]
                           failedNow == Range(t.failedSubs) \cup
                                            (IF ok THEN {} ELSE {conn})
                       IN  IF t.pos < Len(t.snap)
                           THEN /\ tasks'[i].st = "sending"
                                /\ tasks'[i].pos = t.pos + 1
                                /\ tasks'[i].snap = t.snap
                           ELSE /\ tasks'[i].st = "free"
                                /\ Range(active_connections') =
                                       Range(t.snap) \ failedNow
                                /\ Len(active_connections') =
                                       Cardinality(Range(active_connections'))
         ]_vars

(* A broadcast to two subscribers has returned: the send to the first
   failed, the send to the second succeeded and only the first was dropped. *)
C1_Witness ==
    /\ wsPhase[1] = "open"
    /\ wsPhase[2] = "open"
    /\ active_connections = <<2>>
    /\ \A i \in TaskIds : tasks[i].st = "free"

(***************************************************************************)
(* Properties of ingestion.                                                *)
(***************************************************************************)
(* C2: when save_sample_to_db raises during ingestion, on either path, the
   predictions are still returned to the caller and the broadcast of the
   sample is still scheduled. *)
C2_SaveFailureSwallowed ==
    (IsIngestion(last) /\ last.dbRaised) =>
        /\ last.code = 200
        /\ DOKey \in DOMAIN last.rf
        /\ last.scheduled

(* C18: a broadcast call returns the pair (delivered, failed) whose sum is
   the number of subscribers active when it started and whose first member
   is the number of its sends that succeeded; with no subscriber it returns
   (0, 0); no broadcast coroutine ends with an exception. *)
C18_BroadcastReturnsCounts ==
    /\ returned.call = "broadcast" =>
          /\ returned.value[1] + returned.value[2] = returned.subscribers
          /\ returned.value[1] = returned.succeeded
          /\ returned.subscribers = 0 => returned.value = <<0, 0>>
    /\ \A i \in TaskIds : tasks[i].st # "raised"

C18_Witness ==
    /\ returned.call = "broadcast"
    /\ returned.value[1] >= 1
    /\ returned.value[2] >= 1

C18_WitnessNoSubscribers ==
    /\ returned.call = "broadcast"
    /\ returned.subscribers = 0
    /\ returned.value = <<0, 0>>

(* C20: in websocket_sensors a subscriber that was silent for the idle
   timeout is sent a keep-alive; when that send succeeds the handler waits
   for the subscriber's next message again and the active set is as it was,
   when it fails the handler ends and the subscriber is not in the active
   set. *)
C20_KeepAliveOnIdle ==
    [][\A w \in Subs :
          (wsPhase[w] = "keepalive" /\ wsPhase'[w] # "keepalive") =>
              /\ returned'.call = "keep-alive"
              /\ returned'.ws = w
              /\ IF returned'.ok
                 THEN /\ wsPhase'[w] = "open"
                      /\ active_connections' = active_connections
                 ELSE /\ wsPhase'[w] = "closed"
                      /\ \A k \in 1..Len(active_connections') :
                             active_connections'[k] # w]_vars

C20_Witness ==
    /\ returned.call = "keep-alive"
    /\ ~returned.ok
    /\ wsPhase[returned.ws] = "closed"
    /\ \E u \in Subs : wsPhase[u] = "open" /\ u # returned.ws
    /\ active_connections # <<>>

C20_WitnessKept ==
    /\ returned.call = "keep-alive"
    /\ returned.ok
    /\ wsPhase[returned.ws] = "open"
    /\ \E k \in 1..Len(active_connections) :
           active_connections[k] = returned.ws

(* w is a member of the list of subscribers. *)
Member(w, list) == \E k \in 1..Len(list) : list[k] = w

(* The step takes w out of the active set by its handler's disconnect. *)
LeavesByDisconnect(w) == wsPhase[w] # "closed" /\ wsPhase'[w] = "closed"

(* The step ends a broadcast that had w in its snapshot and whose send to
   w failed. *)
LeavesByFailedSend(w) ==
    \E i \in TaskIds :
        /\ tasks[i].st = "sending"
        /\ tasks'[i].st # "sending"
        /\ \/ Member(w, tasks[i].failedSubs)
           \/ tasks[i].snap[tasks[i].pos] = w

(* C27: a subscriber that connected while a broadcast was suspended on a
   send is still in the active set when that broadcast has finished: a
   subscriber leaves the active set only by its disconnect or by a failed
   send to it, and every broadcast that starts is offered to all active
   subscribers. *)
C27_ConnectDuringBroadcastStays ==
    [][/\ \A w \in Subs :
             (Member(w, active_connections) /\ ~Member(w, active_connections')) =>
                 (LeavesByDisconnect(w) \/ LeavesByFailedSend(w))
       /\ \A i \in TaskIds :
             (tasks[i].st = "scheduled" /\ tasks'[i].st = "sending") =>
                 tasks'[i].snap = active_connections]_vars

(* C28: a subscriber that disconnect has removed is not a member of the
   active set again, whatever broadcasts were in progress when it left (a
   websocket that connects again is a new subscriber). *)
C28_DisconnectedStaysOut ==
    \A w \in Subs : wsPhase[w] = "closed" => ~Member(w, active_connections)

(* The step that serves the request of the inbox with predictions. *)
IngestedOk == inbox # NoRequest /\ inbox' = NoRequest /\ last'.code = 200

(* The event of the response just produced sits in a task that has not
   started, and the step sent nothing. *)
ScheduledNotRun ==
    /\ \E i \in TaskIds :
          /\ tasks[i].st = "free"
          /\ tasks'[i].st = "scheduled"
          /\ tasks'[i].msg = Payload(last'.ts, last'.req, last'.rf, last'.svm,
                                     last'.knn)
    /\ UNCHANGED <<active_connections, returned>>

(* C21: the step that answers a successfully processed sample, on either
   ingestion path, leaves a broadcast of its event scheduled as a task that
   has not run yet: the response is there before any send. *)
C21_BroadcastScheduledNotAwaited ==
    [][IngestedOk => ScheduledNotRun]_vars

(* C24: a send that stays pending does not hold up the other subscribers
   of the broadcast: the send to every subscriber of the snapshot that
   reads and stays connected comes to its end although a send to a
   subscriber that does not read is pending. *)
C24_SlowSendDoesNotDelayOthers ==
    \A i \in TaskIds, k \in Subs :
        (/\ tasks[i].st = "sending"
         /\ k <= Len(tasks[i].snap)
         /\ tasks[i].snap[k] \notin SlowSubs)
            ~> \/ tasks[i].st # "sending"
               \/ tasks[i].pos > k
               \/ k > Len(tasks[i].snap)
               \/ wsPhase[tasks[i].snap[k]] \notin {"open", "keepalive"}

(* Some named feature of the request carries a value float() refuses. *)
HasNonNumericFeature(sensors) ==
    \E i \in 1..Len(FeatureNames) :
        /\ FeatureNames[i] \in DOMAIN sensors
        /\ ~PyFloat(sensors[FeatureNames[i]]).ok

(* C17: a request one of whose named feature values is non-numeric is
   rejected with HTTP 400 on either ingestion path; the step writes no
   history row, commits nothing, schedules no broadcast and leaves the
   history and the active subscribers as they were. *)
C17_InvalidFeatureRejected ==
    [][(inbox # NoRequest /\ inbox' = NoRequest
            /\ HasNonNumericFeature(inbox.sensors)) =>
          /\ last'.code = 400
          /\ last'.req = inbox.sensors
          /\ ~last'.scheduled
          /\ UNCHANGED <<samples, sqlite_sequence, commits, tasks,
                         active_connections>>]_vars

C17_Witness ==
    /\ last.op = "batch"
    /\ last.code = 400
    /\ HasNonNumericFeature(last.req)
    /\ DOKey \in DOMAIN last.req
    /\ active_connections # <<>>
    /\ samples = {}

(* What float() makes of the request's DO field. *)
DoGiven(r) == DOKey \in DOMAIN r.req /\ r.req[DOKey] # Null

DoNumber(r) == PyFloat(r.req[DOKey])

ReportedAsFallback(r) ==
    /\ r.rf[DOKey] = Num(r.knnp)
    /\ "note" \in DOMAIN r.rf

ReportedAsRegressor(r) ==
    /\ r.rf[DOKey] = Num(r.rfp[1])
    /\ "note" \notin DOMAIN r.rf

(* C3, as stated: for every sample processed successfully, fallback_used is
   true exactly when the input DO is absent, null or <= 0; then the
   reported DO is the KNN estimate with a note, otherwise the regressor's
   DO without a note. *)
C3_FallbackIffAbsentOrNonPositive ==
    (IsIngestion(last) /\ last.code = 200) =>
        /\ last.fallback <=>
               \/ ~DoGiven(last)
               \/ DoNumber(last).ok /\ ~DoNumber(last).nan /\ DoNumber(last).v <= 0
        /\ last.fallback => ReportedAsFallback(last)
        /\ ~last.fallback => ReportedAsRegressor(last)

(* C3, amended: fallback_used is true exactly when the input DO is absent,
   null, not convertible by float(), or converts to a number <= 0; then the
   reported DO is the KNN estimate with a note, otherwise (DO converts to a
   value that is not <= 0) the regressor's DO without a note. *)
C3_FallbackIffNoUsableDO ==
    (IsIngestion(last) /\ last.code = 200) =>
        /\ last.fallback <=>
               \/ ~DoGiven(last)
               \/ ~DoNumber(last).ok
               \/ ~DoNumber(last).nan /\ DoNumber(last).v <= 0
        /\ last.fallback => ReportedAsFallback(last)
        /\ ~last.fallback => ReportedAsRegressor(last)

(* A sample whose DO is a text that is no number was processed on the batch
   path and reported with the KNN estimate. *)
C3_Witness ==
    /\ last.op = "batch"
    /\ last.code = 200
    /\ DoGiven(last)
    /\ last.req[DOKey] = Str(<<"a", "b">>)
    /\ last.fallback
    /\ ReportedAsFallback(last)

(***************************************************************************)
(* Properties of the history store.                                        *)
(***************************************************************************)
RowById(id) == CHOOSE r \in samples : r.id = id

(* C4: the history is append-only: a successful append adds exactly one
   record whose id is above every id assigned before, no record is ever
   changed or removed, and increasing id is the order of the commits. *)
C4_AppendOnlyIncreasingIds ==
    /\ [](/\ \A i, j \in 1..Len(commits) : i < j => commits[i] < commits[j]
          /\ {r.id : r \in samples} = Range(commits)
          /\ Cardinality(samples) = Len(commits)
          /\ \A r \in samples : r.id <= sqlite_sequence)
    /\ [][/\ samples \subseteq samples'
          /\ samples' # samples =>
                 \E r \in samples' :
                     /\ samples' = samples \cup {r}
                     /\ r \notin samples
                     /\ \A q \in samples : q.id < r.id
                     /\ r.id > sqlite_sequence
                     /\ commits' = Append(commits, r.id)
          /\ samples' = samples => commits' = commits
         ]_vars

(* Two appends were committed, one by each path. *)
C4_Witness ==
    /\ Len(commits) >= 2
    /\ \E r, q \in samples : r.id < q.id /\ r.svm # q.svm

(* C5: after a successful append of a well-formed record the newest entry
   served by the history query equals it: same ts, sensors, rf, svm, knn. *)
C5_AppendThenLatest ==
    (IsIngestion(last) /\ last.code = 200 /\ ~last.dbRaised) =>
        /\ Len(DashboardHistory(1)) = 1
        /\ DashboardHistory(1)[1] =
               [ts |-> last.ts, sensors |-> last.req, rf |-> last.rf,
                svm |-> last.svm, knn |-> last.knn]

(* The second record of the store was just appended by the batch path: its
   DO is null and its feature a number written as text. *)
C5_Witness ==
    /\ last.op = "batch"
    /\ last.code = 200
    /\ ~last.dbRaised
    /\ RowCount = 2
    /\ last.req = MkSensors(Null, Str(<<"1", "2">>))

(* C6: for limit >= 0 and n appended records the history query returns
   exactly the min(limit, n) most recently appended ones, newest first. *)
C6_HistoryMostRecentFirst ==
    (last.op = "history" /\ last.limit >= 0) =>
        LET n == Len(commits)
            k == IF last.limit < n THEN last.limit ELSE n
        IN  /\ Len(last.rows) = k
            /\ \A j \in 1..k :
                   last.rows[j] = HistoryEntry(RowById(commits[n + 1 - j]))

(* A query with limit 1 against two different records returned the newer. *)
C6_Witness ==
    /\ last.op = "history"
    /\ last.limit = 1
    /\ Len(commits) = 2
    /\ Len(last.rows) = 1
    /\ RowById(commits[1]).sensors # RowById(commits[2]).sensors

(***************************************************************************)
(* Properties of the multi-pond prioritisation.                            *)
(***************************************************************************)
Evaluated == {prioIn.ponds[i].pond_id : i \in 1..Len(prioIn.ponds)}

Decided(agents) == mpd.agent \in agents

(* pond_priorities has one entry per evaluated pond and its ranks are
   exactly 1..N. *)
IsRankBijection(m) ==
    LET pp == m.pond_priorities
        N == Cardinality(Evaluated)
    IN  /\ Len(pp) = N
        /\ {pp[i].pond_id : i \in 1..Len(pp)} = Evaluated
        /\ {pp[i].rank : i \in 1..Len(pp)} = 1..N

UrgencyOf(m, pond_id) ==
    m.recommended_actions[CHOOSE i \in 1..Len(m.recommended_actions) :
        m.recommended_actions[i].pond_id = pond_id].urgency_score

HasTie(m) ==
    \E i, j \in 1..Len(m.recommended_actions) :
        /\ i # j
        /\ m.recommended_actions[i].urgency_score =
               m.recommended_actions[j].urgency_score

(* C7: for N different ponds the rule tier and the XGBoost tier return
   pond_priorities with one entry per pond and exactly the ranks 1..N,
   ties in urgency included. *)
C7_RuleTiersRankBijection ==
    Decided({"simple", "xgboost"}) => IsRankBijection(mpd)

(* The XGBoost tier ranked three ponds, two of them equally urgent. *)
C7_Witness ==
    /\ Decided({"xgboost"})
    /\ Len(prioIn.ponds) = 3
    /\ HasTie(mpd)
    /\ IsRankBijection(mpd)

(* C8: pond_priorities of the AutoGluon agent and of the neural agent is
   a bijection from the N evaluated ponds onto 1..N. *)
C8_TrainedTiersRankBijection ==
    Decided({"autogluon", "neural"}) => IsRankBijection(mpd)

(* C9: the rule tier and the XGBoost tier rank by descending urgency,
   rank = position, and rank equally urgent ponds by ascending pond_id,
   whatever the order of the input list. *)
C9_TiesByAscendingPondId ==
    Decided({"simple", "xgboost"}) =>
        LET pp == mpd.pond_priorities
        IN  /\ \A i \in 1..Len(pp) : pp[i].rank = i
            /\ \A i, j \in 1..Len(pp) :
                   i < j =>
                       LET ui == UrgencyOf(mpd, pp[i].pond_id)
                           uj == UrgencyOf(mpd, pp[j].pond_id)
                       IN  \/ ui > uj
                           \/ ui = uj /\ pp[i].pond_id < pp[j].pond_id

RECURSIVE SumOfShares(_)
SumOfShares(alloc) ==
    IF Len(alloc) = 0 THEN [num |-> 0, den |-> 1]
    ELSE LET a == alloc[1].share
             b == SumOfShares(Tail(alloc))
         IN  Divide(a.num * b.den + b.num * a.den, a.den * b.den)

(* C10: when overall_urgency > 0 every evaluated pond's share is its
   urgency over the sum of all urgencies and the shares sum to 1; when
   every urgency is 0 or no pond is evaluated the allocation is empty. *)
C10_AllocationProportionalToUrgency ==
    Decided({"simple", "xgboost", "autogluon", "neural"}) =>
        LET d == mpd.recommended_actions
            alloc == mpd.resource_allocation
            total == SumUrgency(d)
        IN  /\ mpd.overall_urgency > 0 =>
                   /\ Len(alloc) = Cardinality(Evaluated)
                   /\ \A p \in Evaluated :
                          \E i \in 1..Len(alloc) :
                              /\ alloc[i].key = PondKey(p)
                              /\ alloc[i].share.num * total =
                                     UrgencyOf(mpd, p) * alloc[i].share.den
                   /\ SumOfShares(alloc) = [num |-> 1, den |-> 1]
            /\ (\A i \in 1..Len(d) : d[i].urgency_score = 0) => alloc = <<>>
            /\ mpd.overall_urgency > 0 \/ alloc = <<>>

(* The rule tier shared the resources of three ponds of different urgency. *)
C10_Witness ==
    /\ Decided({"simple"})
    /\ Len(mpd.resource_allocation) = 3
    /\ mpd.overall_urgency > 0
    /\ \E i, j \in 1..3 :
           /\ mpd.resource_allocation[i].share # mpd.resource_allocation[j].share
           /\ mpd.resource_allocation[i].share.num > 0
           /\ mpd.resource_allocation[j].share.num > 0

UrgentSet(m) == {m.urgent_ponds[i] : i \in 1..Len(m.urgent_ponds)}

(* C11: in every scorer tier urgent_ponds holds exactly the evaluated
   ponds whose urgency_score is at least 0.7, a pond at exactly 0.7
   included. *)
C11_UrgentPondsAtLeastThreshold ==
    Decided({"simple", "xgboost", "autogluon", "neural"}) =>
        UrgentSet(mpd) =
            {p \in Evaluated : UrgencyOf(mpd, p) * 10 >= 7 * Scale}

(***************************************************************************)
(* Properties of a single decision.                                        *)
(***************************************************************************)
DecidedBy(agents) == decision # NoDecision /\ decision.agent \in agents

(* The action the rule order of the rule tier asks for. *)
FirstMatchingRule(p, urgency) ==
    CASE \/ p.status = "critical"
         \/ p.dissolved_oxygen < 30
         \/ p.ammonia > 50
         \/ urgency * 10 > 9 * Scale -> "emergency_response"
      [] OTHER ->
    CASE p.dissolved_oxygen < do_min -> "increase_aeration"
      [] OTHER ->
    CASE p.ammonia > 20 \/ p.nitrite > 20 \/ p.turbidity > 80 -> "water_exchange"
      [] OTHER ->
    CASE /\ \/ p.temperature < temp_min
            \/ p.temperature > temp_max
            \/ p.ph < ph_min
            \/ p.ph > ph_max
         /\ urgency * 10 > 4 * Scale -> "adjust_feed"
      [] OTHER ->
    CASE p.energy_efficiency < 60 -> "equipment_maintenance"
      [] OTHER ->
    CASE p.labor_efficiency < 60 \/ p.next_tasks >= 3 -> "allocate_workers"
      [] OTHER ->
    CASE urgency * 100 > 25 * Scale -> "monitor_closely"
      [] OTHER -> "no_action"

(* C12: the rule tier returns the action of the first matching rule in
   the order emergency, aeration, water exchange, feed, equipment,
   workers, monitoring, and no action when none matches; a later rule's
   action is never returned while an earlier rule's condition holds. *)
C12_FirstMatchingRule ==
    DecidedBy({"simple"}) =>
        decision.output.primary_action =
            FirstMatchingRule(decIn.pond, decision.output.urgency_score)

(* Water exchange was chosen for a pond whose energy and labor efficiency
   are both below 0.6 and whose urgency is above 0.25. *)
C12_Witness ==
    /\ DecidedBy({"simple"})
    /\ decision.output.primary_action = "water_exchange"
    /\ decIn.pond.energy_efficiency < 60
    /\ decIn.pond.labor_efficiency < 60
    /\ decision.output.urgency_score * 100 > 25 * Scale

ScenarioA(p) ==
    /\ p.dissolved_oxygen = 20
    /\ p.ammonia = 10
    /\ p.temperature = 280
    /\ p.status = "critical"
    /\ p.energy_efficiency >= 70
    /\ p.labor_efficiency >= 70

(* C13: for a pond with DO 2.0, ammonia 0.1, temperature 28 and status
   critical the rule tier answers EMERGENCY_RESPONSE with an urgency of at
   least 0.9. *)
C13_ScenarioA ==
    DecidedBy({"simple"}) /\ ScenarioA(decIn.pond) =>
        /\ decision.output.primary_action = "emergency_response"
        /\ decision.output.urgency_score * 10 >= 9 * Scale

(* C14: in every tier a decision whose primary action is
   EMERGENCY_RESPONSE has a confidence of at least 0.9. *)
C14_EmergencyConfidence ==
    DecidedBy({"simple", "xgboost", "autogluon", "neural"}) =>
        (decision.output.primary_action = "emergency_response" =>
            decision.output.confidence >= Conf(9, 10))

(* C25: in the rule tier a decision whose primary action is not
   EMERGENCY_RESPONSE has the confidence 0.6 + urgency * 0.25 clamped to
   [0.6, 0.85], so never more than 0.85. *)
C25_RuleConfidenceTracksUrgency ==
    DecidedBy({"simple"}) =>
        (decision.output.primary_action # "emergency_response" =>
            LET tracked == Conf(60, 100) + decision.output.urgency_score
            IN  /\ decision.output.confidence =
                      (IF tracked < Conf(60, 100) THEN Conf(60, 100)
                       ELSE IF tracked > Conf(85, 100) THEN Conf(85, 100)
                       ELSE tracked)
                /\ decision.output.confidence <= Conf(85, 100))

SameButAmmonia(p, q) == [p EXCEPT !.ammonia = 0] = [q EXCEPT !.ammonia = 0]

(* C19: of two inputs of the rule tier that differ in ammonia only, the
   one with the larger ammonia has an urgency at least as large. *)
C19_UrgencyMonotoneInAmmonia ==
    DecidedBy({"simple"}) /\ decision.earlier # NoEarlier =>
        LET e == decision.earlier
        IN  SameButAmmonia(e.pond, decIn.pond) =>
                /\ decIn.pond.ammonia >= e.pond.ammonia =>
                       decision.output.urgency_score >= e.output.urgency_score
                /\ decIn.pond.ammonia <= e.pond.ammonia =>
                       decision.output.urgency_score <= e.output.urgency_score

(* Ammonia went from 0.1 to 0.6 on an otherwise good pond and the urgency
   grew. *)
C19_Witness ==
    /\ DecidedBy({"simple"})
    /\ decision.earlier # NoEarlier
    /\ decision.earlier.pond.ammonia = 10
    /\ decIn.pond.ammonia = 60
    /\ decIn.pond.status = "excellent"
    /\ decision.output.urgency_score > decision.earlier.output.urgency_score

(***************************************************************************)
(* Properties of the construction of the ManagerAgent.                     *)
(***************************************************************************)
ConfiguredTiers == {"autogluon", "xgboost", "simple", "tiny"}

(* C15: with decisions enabled and the agent type autogluon, xgboost,
   simple or tiny, the construction of the ManagerAgent raises nothing,
   whatever is available of the agents' modules and models, and ends with
   a usable decision agent. *)
C15_ConstructionNeverRaises ==
    (/\ manager.pc \in {"constructed", "raised"}
     /\ UseDecisionAgent(manager.call)
     /\ RequestedType(manager.call) \in ConfiguredTiers)
        => /\ manager.pc = "constructed"
           /\ manager.decision_agent # None

(* C22: a configured tier that is unavailable is replaced by the next tier
   of the order AutoGluon, XGBoost, Simple: an unavailable AutoGluon agent
   by the XGBoost agent when that one is available and by the simple agent
   only when it is not, an unavailable XGBoost agent by the simple agent. *)
C22_DowngradeInTierOrder ==
    (manager.pc = "constructed" /\ UseDecisionAgent(manager.call)) =>
        LET type == RequestedType(manager.call)
            ruleTypes == {"tiny", "minimal", "lite", "simple", "rules",
                          "rule_based", "baseline"}
        IN  /\ (type \in {"xgboost", "xgb"}
                    /\ manager.call.xgboost # "trained") =>
                  manager.decision_agent = "SimpleDecisionAgent"
            /\ (type \notin ruleTypes \cup {"xgboost", "xgb"}
                    /\ manager.call.autogluon # "trained") =>
                  manager.decision_agent =
                      IF manager.call.xgboost = "trained"
                      THEN "XGBoostDecisionAgent"
                      ELSE "SimpleDecisionAgent"

(***************************************************************************)
(* Properties of the model cache.                                          *)
(***************************************************************************)
(* C23: every dashboard model is loaded at most once, however the requests
   that need it interleave, and an entry of the cache, once stored, is never
   replaced. *)
C23_LoadedAtMostOnce ==
    /\ [](\A n \in ModelNames : loadCalls[n] <= 1)
    /\ [][\A n \in ModelNames :
             DASH_MODELS[n] # NotCached => DASH_MODELS'[n] = DASH_MODELS[n]]_vars

(***************************************************************************)
(* Properties of the dashboard snapshot cache.                             *)
(***************************************************************************)
(* The key of the request has a snapshot whose time stamp is at most
   cache_ttl_s seconds before now. *)
StoredInTime(r) ==
    /\ DASHBOARD_CACHE_TS[r.key] # Null
    /\ DASHBOARD_CACHE_TS[r.key].v + r.cache_ttl_s >= clock

(* C26: a request with fresh=false and cache_ttl_s > 0 whose key has a
   snapshot stored at most cache_ttl_s seconds earlier returns that snapshot
   and generates nothing; every other request generates a new snapshot and,
   when cache_ttl_s > 0, stores it with the time of the request under its
   key and no other; with cache_ttl_s = 0 the cache is neither read nor
   written. *)
C26_SnapshotCache ==
    [][\A t \in Getters :
          /\ (getters[t].pc = "idle" /\ getters'[t].pc # "idle") =>
                LET r == getters'[t].req
                IN  /\ r.now = clock
                    /\ UNCHANGED <<DASHBOARD_CACHE, DASHBOARD_CACHE_TS, snapshots>>
                    /\ IF ~r.fresh /\ r.cache_ttl_s > 0 /\ StoredInTime(r)
                       THEN /\ getters'[t].pc = "returned"
                            /\ getters'[t].response = DASHBOARD_CACHE[r.key]
                            /\ ~getters'[t].generated
                       ELSE getters'[t].pc = "generating"
          /\ (getters[t].pc = "generating" /\ getters'[t].pc # "generating") =>
                LET r == getters[t].req
                IN  /\ getters'[t].pc = "returned"
                    /\ getters'[t].generated
                    /\ getters'[t].response = Num(snapshots')
                    /\ snapshots' = snapshots + 1
                    /\ \A k \in CacheKeys :
                          IF k = r.key /\ r.cache_ttl_s > 0
                          THEN /\ DASHBOARD_CACHE'[k] = getters'[t].response
                               /\ DASHBOARD_CACHE_TS'[k] = Num(r.now)
                          ELSE /\ DASHBOARD_CACHE'[k] = DASHBOARD_CACHE[k]
                               /\ DASHBOARD_CACHE_TS'[k] = DASHBOARD_CACHE_TS[k]]_vars

C26_Witness ==
    \E t \in Getters :
        /\ getters[t].pc = "returned"
        /\ ~getters[t].generated
        /\ getters[t].req.now > DASHBOARD_CACHE_TS[getters[t].req.key].v
        /\ \E k \in CacheKeys :
              /\ k # getters[t].req.key
              /\ DASHBOARD_CACHE[k] # Null
              /\ DASHBOARD_CACHE[k] # getters[t].response

(***************************************************************************)
(* Properties of the simulator registry.                                   *)
(***************************************************************************)
LiveSimulators(pond) ==
    {n \in SimThreadIds : simThreads[n].st = "alive" /\ simThreads[n].pond = pond}

(* C29: no pond ever has two live simulator threads, and a stop request is
   answered 'stopped' only when the thread of the pond's simulator has
   ended. *)
C29_OneSimulatorPerPond ==
    /\ \A pond \in SimPonds : Cardinality(LiveSimulators(pond)) <= 1
    /\ \A c \in Controllers :
          (controllers[c].pc = "returned" /\ controllers[c].response = "stopped")
              => simThreads[controllers[c].entry].st # "alive"

(***************************************************************************)
(* Properties of sensor_history of the v2 API.                             *)
(***************************************************************************)
(* The readings kept for a pond are the latest that arrived, in the order
   of their arrival. *)
KeepsMostRecent(pond_id) ==
    LET h == sensor_history[pond_id]
    IN  \A k \in 1..Len(h) : h[k] = arrivals[pond_id] - Len(h) + k

(* C30: after any sequence of /api/predict and /api/predict/batch requests
   the history of a pond holds at most MAX_HISTORY_LENGTH readings, and
   they are the most recent ones in arrival order. *)
C30_HistoryBounded ==
    \A pond_id \in HistoryPonds :
        /\ Len(sensor_history[pond_id]) <= MAX_HISTORY_LENGTH
        /\ KeepsMostRecent(pond_id)

(***************************************************************************)
(* Properties of the simulator.                                            *)
(***************************************************************************)
SimEnded == sim.pc \in {"returned", "raised"}

(* C16: once stop() has been called run() ends; with the signal set the
   loop starts no new iteration, and the sleep is left at the next test,
   after at most one more polling step, whatever is left of the interval. *)
C16_StopEndsRun ==
    /\ (sim.pc # "idle" /\ sim.stop_called) ~> SimEnded
    /\ [][/\ (sim.stop_event /\ sim.pc = "while") => sim'.pc # "body"
          /\ (sim.stop_event /\ sim.pc = "sleep") => sim'.pc # "sleeping"
          /\ sim'.iterations > sim.iterations => ~sim.stop_event]_vars

(* stop() was called one step into a sleep of three and run() returned
   with the rest of the interval unslept. *)
C16_Witness ==
    /\ sim.pc = "returned"
    /\ sim.stop_called
    /\ sim.exception = "none"
    /\ sim.sleep_t = 3
    /\ sim.waited = 1

=============================================================================
